---- MODULE Spec2Model ----
(***************************************************************************)
(* A model of the air module of purple_haze (src/purple_haze/air.py):      *)
(* the AQI calculator, the Sensor class and the tract aggregation.         *)
(*                                                                         *)
(* Numbers.  PM2.5 concentrations are integers in hundredths of ug/m3      *)
(* (the resolution of the Purple Air CSV files); a concentration rounded   *)
(* to one decimal place is an integer in tenths of ug/m3.  An AQI value is *)
(* an exact rational [n, d] with d > 0, since the EPA formula divides by   *)
(* the width of the category.                                              *)
(***************************************************************************)
EXTENDS Integers, Sequences, FiniteSets, TLC

VARIABLES
    pc,         \* position of the run: "start", then the calls made
    pm25,       \* argument of aqi(pm25), in hundredths of ug/m3
    aqi_ret,    \* outcome of aqi(pm25): [exc, val]
    pm25_b,     \* argument of a second call of aqi, pm25_b >= pm25
    aqi_ret_b,  \* outcome of aqi(pm25_b)
    data_streams,   \* the list of DataStreams handed to Sensor(data_streams)
    edits,          \* number of changes the caller made to that list
    sensor_ret,     \* outcome of Sensor(data_streams): [exc, why, obj]
    disk,           \* what the CSV files hold: sensor -> [rec, which, start]
    load_ret,       \* outcome of Sensor.load(): [exc, ds]
    df_row,         \* the dataframe row handed to get_tract_mean_aqi or
                    \* get_tract_exposure
    aqi_threshold,  \* the aqi_threshold argument of get_tract_exposure
    include_smoke,  \* the include_smoke argument
    tract_ret,      \* outcome of the tract function called: [exc, val]
    file_name,      \* the pieces of the path handed to DataStream(filepath)
    stream_ret      \* outcome of DataStream(filepath): [exc, obj]

aqiVars == <<pm25, aqi_ret, pm25_b, aqi_ret_b>>
sensorVars == <<data_streams, edits, sensor_ret>>
loadVars == <<disk, load_ret>>
tractVars == <<df_row, aqi_threshold, include_smoke, tract_ret>>
streamVars == <<file_name, stream_ret>>
vars == <<pc, aqiVars, sensorVars, loadVars, tractVars, streamVars>>

(***************************************************************************)
(* Bounds of the model.                                                    *)
(***************************************************************************)
MaxPm == 50600          \* largest PM2.5 input, hundredths (506.00 ug/m3)
MaxNegPm == 120         \* most negative PM2.5 input is -MaxNegPm hundredths
MaxStep == 10           \* pm25_b - pm25 is at most MaxStep hundredths
MaxEdits == 2           \* changes a caller makes to a sensor's stream list
MaxPrefix == 2          \* samples of a PM2.5 record that vary freely
MaxTail == 10           \* regular samples that follow them
MaxTractLen == 2        \* samples of a PM2.5 record of the tract model

(***************************************************************************)
(* Outcomes of a call: a returned value or a raised exception.             *)
(***************************************************************************)
Rat(n, d) == [n |-> n, d |-> d]
NoVal == Rat(0, 1)
Returned(v) == [exc |-> "none", val |-> v]
Raised(e) == [exc |-> e, val |-> NoVal]
NotCalled == [exc |-> "notcalled", val |-> NoVal]

RECURSIVE Gcd(_, _)
Gcd(a, b) == IF b = 0 THEN a ELSE Gcd(b, a % b)

Abs(x) == IF x < 0 THEN 0 - x ELSE x

\* the rational v in lowest terms
Lowest(v) ==
    LET g == Gcd(Abs(v.n), v.d)
    IN  Rat(v.n \div g, v.d \div g)

(***************************************************************************)
(* aqi(pm25), air.py 242-322.                                              *)
(***************************************************************************)

\* An orange row with the AQI range of the yellow one.
orangeAsYellow == [aqi_low |-> 51, aqi_hi |-> 100, pm_low |-> 355, pm_hi |-> 554]

\* A yellow row that starts at the AQI where green ends.
yellowContiguous == [aqi_low |-> 50, aqi_hi |-> 100, pm_low |-> 121, pm_hi |-> 354]

\* The breakpoint dictionaries green .. maroon; pm_low and pm_hi in tenths.
green == [aqi_low |-> 0, aqi_hi |-> 50, pm_low |-> 0, pm_hi |-> 120]
yellow == [aqi_low |-> 51, aqi_hi |-> 100, pm_low |-> 121, pm_hi |-> 354]
orange == [aqi_low |-> 101, aqi_hi |-> 150, pm_low |-> 355, pm_hi |-> 554]
red == [aqi_low |-> 151, aqi_hi |-> 200, pm_low |-> 555, pm_hi |-> 1504]
purple == [aqi_low |-> 201, aqi_hi |-> 300, pm_low |-> 1505, pm_hi |-> 2504]
maroon == [aqi_low |-> 301, aqi_hi |-> 500, pm_low |-> 2505, pm_hi |-> 5004]

colors == <<green, yellow, orange, red, purple, maroon>>

\* A rounding that truncates to the tenth below.
NpRound1Floor(h) == h \div 10

\* np.round(pm25, 1): hundredths to tenths, a tie going to the even tenth
\* (numpy rounds x * 10 with rint, which rounds half to even).
NpRound1(h) ==
    LET q == h \div 10
        r == h % 10
    IN  IF r < 5 THEN q
        ELSE IF r > 5 THEN q + 1
        ELSE IF q % 2 = 0 THEN q ELSE q + 1

\* A categorization that falls back on the lowest category.
CategorizeLowest(r) ==
    LET hits == {i \in 1..Len(colors) :
                    r >= colors[i].pm_low /\ r <= colors[i].pm_hi}
    IN  IF hits # {}
        THEN colors[CHOOSE i \in hits : \A j \in hits : i <= j]
        ELSE colors[1]

\* The for loop over colors: the first color whose range holds r, and
\* colors[-1] when the loop ends with categorized = False.
Categorize(r) ==
    LET hits == {i \in 1..Len(colors) :
                    r >= colors[i].pm_low /\ r <= colors[i].pm_hi}
    IN  IF hits # {}
        THEN colors[CHOOSE i \in hits : \A j \in hits : i <= j]
        ELSE colors[Len(colors)]

\* aqi_num for the rounded value r and the category cat, as a rational.
EpaFormula(cat, r) ==
    Rat((cat.aqi_hi - cat.aqi_low) * (r - cat.pm_low)
            + cat.aqi_low * (cat.pm_hi - cat.pm_low),
        cat.pm_hi - cat.pm_low)

\* A calculator that tests the sign after rounding.
aqiSignAfterRounding(p) ==
    LET r == NpRound1(p)
    IN  IF r < 0
        THEN Raised("ValueError")
        ELSE Returned(EpaFormula(Categorize(r), r))

aqi(p) ==
    IF p < 0
    THEN Raised("ValueError")
    ELSE LET r == NpRound1(p)
         IN  Returned(EpaFormula(Categorize(r), r))

(***************************************************************************)
(* DataStream objects, air.py 347-476: the attributes that                 *)
(* DataStream.__init__ assigns.  lat and lon are in degrees.  The          *)
(* attributes are plain Python attributes, so a caller can assign any      *)
(* value of these sets to them before building a Sensor.                   *)
(***************************************************************************)
SensorNames == {"loc", "kirkland"}
Lats == {47, 48}
Lons == {-122, -121}
Locs == {"inside", "outside", "undefined"}
Channels == {"A", "B", "C"}         \* "C" stands for any value but "A", "B"
DataTypes == {0, 1, 2}              \* unknown, primary, secondary

DataStreamAttrs == {"sensor_name", "lat", "lon", "loc", "channel", "data_type"}

AttrValues(attr) ==
    CASE attr = "sensor_name" -> SensorNames
      [] attr = "lat" -> Lats
      [] attr = "lon" -> Lons
      [] attr = "loc" -> Locs
      [] attr = "channel" -> Channels
      [] attr = "data_type" -> DataTypes

DataStream(fp, name, la, lo, where, chan, dt) ==
    [filepath |-> fp, sensor_name |-> name, lat |-> la, lon |-> lo,
     loc |-> where, channel |-> chan, data_type |-> dt]

(***************************************************************************)
(* Text.  A Python str is a sequence of one-character strings; the         *)
(* operators below are the str methods that DataStream.__init__ and the    *)
(* tract functions call.                                                   *)
(***************************************************************************)
UpperCase == <<"A", "B", "C", "D", "E", "F", "G", "H", "I", "J", "K", "L", "M", "N", "O", "P", "Q", "R", "S", "T", "U", "V", "W", "X", "Y", "Z">>
LowerCase == <<"a", "b", "c", "d", "e", "f", "g", "h", "i", "j", "k", "l", "m", "n", "o", "p", "q", "r", "s", "t", "u", "v", "w", "x", "y", "z">>
Digits == <<"0", "1", "2", "3", "4", "5", "6", "7", "8", "9">>
DigitChars == {Digits[i] : i \in DOMAIN Digits}

Min(S) == CHOOSE x \in S : \A y \in S : x <= y
Max(S) == CHOOSE x \in S : \A y \in S : x >= y

\* c.lower() of one character
CharLower(c) ==
    IF \E i \in DOMAIN UpperCase : UpperCase[i] = c
    THEN LowerCase[CHOOSE i \in DOMAIN UpperCase : UpperCase[i] = c]
    ELSE c

\* s.lower()
StrLower(s) == [i \in DOMAIN s |-> CharLower(s[i])]

\* s.strip()
StrStrip(s) ==
    LET keep == {i \in DOMAIN s : s[i] # " "}
    IN  IF keep = {} THEN <<>> ELSE SubSeq(s, Min(keep), Max(keep))

\* t occurs in s at position i
OccursAt(s, t, i) ==
    /\ i + Len(t) - 1 <= Len(s)
    /\ \A j \in 1..Len(t) : s[i + j - 1] = t[j]

\* the first position of t in s, 0 when t is not in s
StrFind(s, t) ==
    LET hits == {i \in 1..Len(s) : OccursAt(s, t, i)}
    IN  IF hits = {} THEN 0 ELSE Min(hits)

\* t in s
StrIn(t, s) == \E i \in 1..Len(s) : OccursAt(s, t, i)

\* s.endswith(t)
StrEndsWith(s, t) ==
    /\ Len(t) <= Len(s)
    /\ SubSeq(s, Len(s) - Len(t) + 1, Len(s)) = t

\* s.split(sep)
RECURSIVE StrSplit(_, _)
StrSplit(s, sep) ==
    LET i == StrFind(s, sep)
    IN  IF i = 0
        THEN <<s>>
        ELSE <<SubSeq(s, 1, i - 1)>>
                \o StrSplit(SubSeq(s, i + Len(sep), Len(s)), sep)

\* s.split(): the words between runs of blanks
RECURSIVE StrWords(_)
StrWords(s) ==
    LET t == StrStrip(s)
        blanks == {i \in DOMAIN t : t[i] = " "}
        e == IF blanks = {} THEN Len(t) ELSE Min(blanks) - 1
    IN  IF t = <<>>
        THEN <<>>
        ELSE <<SubSeq(t, 1, e)>> \o StrWords(SubSeq(t, e + 1, Len(t)))

\* sep.join(parts)
RECURSIVE StrJoin(_, _)
StrJoin(sep, parts) ==
    IF parts = <<>> THEN <<>>
    ELSE IF Len(parts) = 1 THEN parts[1]
    ELSE parts[1] \o sep \o StrJoin(sep, Tail(parts))

(***************************************************************************)
(* re.search(latlon_regex_pattern, filename), air.py 406-407.  A pattern   *)
(* is a sequence of items: a literal character, "." (any character) or a   *)
(* greedy one-or-more of a character class.                                *)
(***************************************************************************)
Lit(c) == [kind |-> "lit", cs |-> {c}]
AnyChar == [kind |-> "any", cs |-> {}]
OneOrMore(cs) == [kind |-> "plus", cs |-> cs]

\* r"\([0-9]+.[0-9]+ [-]+[0-9]+.[0-9]+\)"
latlon_regex_pattern ==
    << Lit("("), OneOrMore(DigitChars), AnyChar, OneOrMore(DigitChars),
       Lit(" "), OneOrMore({"-"}), OneOrMore(DigitChars), AnyChar,
       OneOrMore(DigitChars), Lit(")") >>

\* The position after the match of items k .. of pat at position pos of s,
\* 0 when they do not match there.  A one-or-more takes the longest run
\* that lets the rest of the pattern match.
RECURSIVE ReMatch(_, _, _, _)
ReMatch(pat, s, k, pos) ==
    IF k > Len(pat) THEN pos
    ELSE IF pos > Len(s) THEN 0
    ELSE IF pat[k].kind = "lit"
    THEN IF s[pos] \in pat[k].cs THEN ReMatch(pat, s, k + 1, pos + 1) ELSE 0
    ELSE IF pat[k].kind = "any"
    THEN ReMatch(pat, s, k + 1, pos + 1)
    ELSE LET run == {n \in 1..(Len(s) - pos + 1) :
                        \A j \in pos..(pos + n - 1) : s[j] \in pat[k].cs}
             ok == {n \in run : ReMatch(pat, s, k + 1, pos + n) # 0}
         IN  IF ok = {} THEN 0 ELSE ReMatch(pat, s, k + 1, pos + Max(ok))

\* search_result: the leftmost match, [from, to]; from = 0 for None.
ReSearch(pat, s) ==
    LET starts == {i \in 1..Len(s) : ReMatch(pat, s, 1, i) # 0}
    IN  IF starts = {}
        THEN [from |-> 0, to |-> 0]
        ELSE [from |-> Min(starts),
              to |-> ReMatch(pat, s, 1, Min(starts)) - 1]

(***************************************************************************)
(* float(text), air.py 413-414, for the texts the pattern lets through:    *)
(* an optional minus sign, then digits around at most one other character. *)
(* The float is the exact rational in lowest terms.                        *)
(***************************************************************************)
RECURSIVE Pow10(_)
Pow10(k) == IF k = 0 THEN 1 ELSE 10 * Pow10(k - 1)

RECURSIVE DigitsValue(_)
DigitsValue(t) ==
    IF t = <<>> THEN 0
    ELSE 10 * DigitsValue(SubSeq(t, 1, Len(t) - 1))
            + (CHOOSE i \in DOMAIN Digits : Digits[i] = t[Len(t)]) - 1

FloatOf(v) == [ok |-> TRUE, val |-> Lowest(v)]
FloatError == [ok |-> FALSE, val |-> Rat(0, 1)]

\* digits a, the character c, digits b
FloatAround(sign, a, c, b) ==
    IF c = "." /\ (a # <<>> \/ b # <<>>)
    THEN FloatOf(Rat(sign * (DigitsValue(a) * Pow10(Len(b)) + DigitsValue(b)),
                     Pow10(Len(b))))
    ELSE IF c = "_" /\ a # <<>> /\ b # <<>>
    THEN FloatOf(Rat(sign * DigitsValue(a \o b), 1))
    ELSE IF c \in {"e", "E"} /\ a # <<>> /\ b # <<>>
    THEN FloatOf(Rat(sign * DigitsValue(a) * Pow10(DigitsValue(b)), 1))
    ELSE FloatError

\* body after the sign; others are its positions that hold no digit
FloatUnsigned(sign, body, others) ==
    IF body = <<>> \/ Cardinality(others) > 1
    THEN FloatError
    ELSE IF others = {}
    THEN FloatOf(Rat(sign * DigitsValue(body), 1))
    ELSE FloatAround(sign, SubSeq(body, 1, Min(others) - 1), body[Min(others)],
                     SubSeq(body, Min(others) + 1, Len(body)))

FloatSigned(sign, body) ==
    FloatUnsigned(sign, body, {i \in DOMAIN body : body[i] \notin DigitChars})

PyFloat(text) ==
    IF text # <<>> /\ text[1] = "-"
    THEN FloatSigned(0 - 1, Tail(text))
    ELSE FloatSigned(1, text)

(***************************************************************************)
(* DataStream.__init__(filepath), air.py 373-476, for a str filepath.  The *)
(* steps of the method follow one another as operators, each handed the    *)
(* values the method has computed so far.                                  *)
(***************************************************************************)
NoDataStream ==
    [filepath |-> <<>>, sensor_name |-> <<>>, lat |-> Rat(0, 1),
     lon |-> Rat(0, 1), loc |-> "undefined", channel |-> "A", data_type |-> 0]

DataStreamBuilt(obj) == [exc |-> "none", obj |-> obj]
DataStreamRaised(e) == [exc |-> e, obj |-> NoDataStream]

\* loc_options, line 426, and each option without its parentheses
loc_options == << <<"(", "i", "n", "s", "i", "d", "e", ")">>,
                  <<"(", "o", "u", "t", "s", "i", "d", "e", ")">>,
                  <<"(", "u", "n", "d", "e", "f", "i", "n", "e", "d", ")">> >>
loc_names == <<"inside", "outside", "undefined">>

\* Lines 429-439 for the options found in name_loc.lower(): the loop does
\* not break, so the last option found sets loc, and sensor_name is the text
\* of name_loc before that option, spelled in lower case, or all of
\* name_loc when name_loc does not hold that spelling.
NameAndLocFound(name_loc, last) ==
    [loc |-> loc_names[last],
     sensor_name |-> StrStrip(StrSplit(name_loc, loc_options[last])[1])]

\* A sensor name that keeps the text in parentheses.
NameAndLocWhole(name_loc) ==
    IF \E i \in DOMAIN loc_options : StrIn(loc_options[i], StrLower(name_loc))
    THEN NameAndLocFound(name_loc,
            Max({i \in DOMAIN loc_options :
                    StrIn(loc_options[i], StrLower(name_loc))}))
    ELSE [loc |-> "undefined", sensor_name |-> StrStrip(name_loc)]

\* Lines 425-452.
NameAndLoc(name_loc) ==
    IF \E i \in DOMAIN loc_options : StrIn(loc_options[i], StrLower(name_loc))
    THEN NameAndLocFound(name_loc,
            Max({i \in DOMAIN loc_options :
                    StrIn(loc_options[i], StrLower(name_loc))}))
    ELSE [loc |-> "undefined",
          sensor_name |->
            IF StrIn(<<"(">>, name_loc)
            THEN StrStrip(StrSplit(name_loc, <<"(">>)[1])
            ELSE StrStrip(name_loc)]

\* Lines 454-466.
ChannelOf(sensor_name) ==
    IF StrEndsWith(sensor_name, <<"B">>) THEN "B" ELSE "A"

NameWithoutChannel(sensor_name) ==
    IF StrEndsWith(sensor_name, <<"B">>)
    THEN StrLower(StrStrip(SubSeq(sensor_name, 1, Len(sensor_name) - 1)))
    ELSE StrLower(sensor_name)

\* Lines 468-476.
DataTypeOf(type_info) ==
    IF StrIn(<<"P", "r", "i", "m", "a", "r", "y">>, type_info) THEN 1
    ELSE IF StrIn(<<"S", "e", "c", "o", "n", "d", "a", "r", "y">>, type_info) THEN 2
    ELSE 0

\* Lines 413-476: after float(lat_str) and float(lon_str).
InitFromFloats(filepath, lat, lon, nl, type_info) ==
    IF ~lat.ok \/ ~lon.ok
    THEN DataStreamRaised("ValueError")         \* raised by float
    ELSE DataStreamBuilt(
            DataStream(filepath, NameWithoutChannel(nl.sensor_name),
                       lat.val, lon.val, nl.loc, ChannelOf(nl.sensor_name),
                       DataTypeOf(type_info)))

\* The data type looked for in the text before the coordinates as well.
InitFromPartsAnywhere(filepath, crds, fname_parts) ==
    IF Len(crds) # 2
    THEN DataStreamRaised("ValueError")
    ELSE InitFromFloats(filepath, PyFloat(crds[1]), PyFloat(crds[2]),
                        NameAndLoc(fname_parts[1]),
                        fname_parts[1] \o fname_parts[2])

\* Lines 412-423: crds is crd_str[1:-1].split().
InitFromParts(filepath, crds, fname_parts) ==
    IF Len(crds) # 2
    THEN DataStreamRaised("ValueError")         \* unpacking lat_str, lon_str
    ELSE InitFromFloats(filepath, PyFloat(crds[1]), PyFloat(crds[2]),
                        NameAndLoc(fname_parts[1]), fname_parts[2])

InitFromCoords(filepath, filename, crd_str) ==
    InitFromParts(filepath, StrWords(SubSeq(crd_str, 2, Len(crd_str) - 1)),
                  StrSplit(filename, crd_str))

\* Lines 409-418.
InitFromSearch(filepath, filename, search_result) ==
    IF search_result.from = 0
    THEN DataStreamRaised("ValueError")         \* no coordinates
    ELSE InitFromCoords(filepath, filename,
            SubSeq(filename, search_result.from, search_result.to))

InitFromFilename(filepath, filename) ==
    InitFromSearch(filepath, filename,
                   ReSearch(latlon_regex_pattern, filename))

\* seq[-1]
LastOf(seq) == seq[Len(seq)]

DataStreamInit(filepath) ==
    IF ~StrEndsWith(filepath, <<".", "c", "s", "v">>)
    THEN DataStreamRaised("ValueError")
    ELSE InitFromFilename(filepath, LastOf(StrSplit(filepath,
            <<"d", "a", "t", "a", "/", "p", "u", "r", "p", "l", "e", "_", "a", "i", "r", "/">>)))

(***************************************************************************)
(* Sensor.__init__(data_streams), air.py 619-707.                          *)
(***************************************************************************)
Range(f) == {f[i] : i \in DOMAIN f}

\* Index in data_streams of the stream a slot refers to; 0 when the slot was
\* never assigned (the attribute does not exist).
Unassigned == 0

\* A loop that looks at the channel alone.
SlotOfChannel(ds, chan, dt) ==
    LET hits == {i \in DOMAIN ds : ds[i].channel = chan}
    IN  IF hits = {} THEN Unassigned
        ELSE CHOOSE i \in hits : \A j \in hits : j <= i

\* The loop of lines 696-707: the last stream of each (channel, data_type)
\* wins the slot.
SlotOf(ds, chan, dt) ==
    LET hits == {i \in DOMAIN ds : ds[i].channel = chan /\ ds[i].data_type = dt}
    IN  IF hits = {} THEN Unassigned
        ELSE CHOOSE i \in hits : \A j \in hits : j <= i

\* A resolution in which an undefined stream decides.
ResolveLocUndefinedFirst(locs) ==
    IF "undefined" \in locs THEN "undefined"
    ELSE IF "inside" \in locs THEN "inside"
    ELSE "outside"

\* Lines 687-693.
ResolveLoc(locs) ==
    IF "inside" \in locs THEN "inside"
    ELSE IF "outside" \in locs THEN "outside"
    ELSE "undefined"

NoSensor ==
    [name |-> "", lat |-> 0, lon |-> 0, datastreams |-> <<>>, loc |-> "",
     str_a1 |-> Unassigned, str_a2 |-> Unassigned,
     str_b1 |-> Unassigned, str_b2 |-> Unassigned]

SensorBuilt(obj) == [exc |-> "none", why |-> "", obj |-> obj]
SensorRaised(why) == [exc |-> "ValueError", why |-> why, obj |-> NoSensor]
SensorNotCalled == [exc |-> "notcalled", why |-> "", obj |-> NoSensor]

\* Lines 634-638: every channel is "A" or "B".
ValidChannels(ds) ==
    ~ \E i \in DOMAIN ds : ds[i].channel # "A" /\ ds[i].channel # "B"

\* A data_type check that lets the unknown type 0 through.
KnownDataTypesOrZero(ds) ==
    ~ \E i \in DOMAIN ds : ds[i].data_type \notin {0, 1, 2}

\* Lines 641-645: every data_type is 1 or 2.
KnownDataTypes(ds) ==
    ~ \E i \in DOMAIN ds : ds[i].data_type # 1 /\ ds[i].data_type # 2

\* Lines 647-649: some stream is primary.
HasPrimary(ds) ==
    ~ \A i \in DOMAIN ds : ds[i].data_type # 1

\* A uniqueness check on the streams themselves, not on their tuples.
UniqueStreams(ds) == Len(ds) = Cardinality(Range(ds))

\* Lines 652-656: the (channel, data_type) tuples are pairwise different.
UniqueCombos(ds) ==
    LET stream_info_tuples ==
            [i \in DOMAIN ds |-> <<ds[i].channel, ds[i].data_type>>]
    IN  Len(stream_info_tuples) = Cardinality(Range(stream_info_tuples))

\* An identity check on the sensor names alone.
MatchingNames(ds) ==
    \A i \in DOMAIN ds : ds[i].sensor_name = ds[1].sensor_name

\* Lines 659-669: name_check, lat_check and lon_check against stream 0.
MatchingIdentity(ds) ==
    /\ \A i \in DOMAIN ds : ds[i].sensor_name = ds[1].sensor_name
    /\ \A i \in DOMAIN ds : ds[i].lat = ds[1].lat
    /\ \A i \in DOMAIN ds : ds[i].lon = ds[1].lon

\* Lines 674-677.
ConflictingLocs(ds) ==
    LET locs == {ds[i].loc : i \in DOMAIN ds}
    IN  "inside" \in locs /\ "outside" \in locs

\* Input checks that accept a list of any length.
SensorCheckAnyLength(ds) ==
    IF ~ValidChannels(ds) THEN "valid channel IDs"
    ELSE IF ~KnownDataTypes(ds) THEN "known data_types"
    ELSE IF ~HasPrimary(ds) THEN "at least one primary"
    ELSE IF ~UniqueCombos(ds) THEN "unique combination"
    ELSE IF ~MatchingIdentity(ds) THEN "matching sensor names and lat/lon"
    ELSE IF ConflictingLocs(ds) THEN "conflicting locations"
    ELSE ""

\* The input checks of lines 629-677, in the order of the code: the message
\* of the ValueError raised, "" when every check passes.
SensorCheck(ds) ==
    IF Len(ds) # 4 THEN "four DataStreams"
    ELSE IF ~ValidChannels(ds) THEN "valid channel IDs"
    ELSE IF ~KnownDataTypes(ds) THEN "known data_types"
    ELSE IF ~HasPrimary(ds) THEN "at least one primary"
    ELSE IF ~UniqueCombos(ds) THEN "unique combination"
    ELSE IF ~MatchingIdentity(ds) THEN "matching sensor names and lat/lon"
    ELSE IF ConflictingLocs(ds) THEN "conflicting locations"
    ELSE ""

\* Lines 679-707: the attributes of the new Sensor.
SensorObject(ds) ==
    [name |-> ds[1].sensor_name, lat |-> ds[1].lat, lon |-> ds[1].lon,
     datastreams |-> ds,
     loc |-> ResolveLoc({ds[i].loc : i \in DOMAIN ds}),
     str_a1 |-> SlotOf(ds, "A", 1), str_a2 |-> SlotOf(ds, "A", 2),
     str_b1 |-> SlotOf(ds, "B", 1), str_b2 |-> SlotOf(ds, "B", 2)]

Sensor(ds) ==
    IF SensorCheck(ds) # ""
    THEN SensorRaised(SensorCheck(ds))
    ELSE SensorBuilt(SensorObject(ds))

(***************************************************************************)
(* The CSV files.  A file is a table [time, cols]: time is the list of its *)
(* created_at stamps, in hours, and cols maps each column the file has     *)
(* (under the name DataStream.load gives it) to its list of samples.  A    *)
(* sample is a number in hundredths of its unit, or NaN (an empty cell).   *)
(*                                                                         *)
(* The files 4k-3 .. 4k are the channel A primary, channel A secondary,    *)
(* channel B primary and channel B secondary files of sensor k.  Its four  *)
(* files cover the same consecutive hours, from disk[k].start on.  The     *)
(* PM2.5 record disk[k].rec fills the column disk[k].which (pm25_atm or    *)
(* pm25_cf1) of its channel A primary file, and the other of these two     *)
(* columns reads 10 ug/m3 more.  Every other column holds one value that   *)
(* tells the file and the column.                                          *)
(***************************************************************************)
Sample(v) == [nan |-> FALSE, v |-> v]
NaNSample == [nan |-> TRUE, v |-> 0]

\* An AQI sample: the rational n / d, or NaN.
AqiSample(r) == [nan |-> FALSE, n |-> r.n, d |-> r.d]
NaNAqi == [nan |-> TRUE, n |-> 0, d |-> 1]

\* The columns of the files Purple Air exports that Sensor.load reads.
PrimaryAColumns ==
    {"temp", "rh", "uptime", "pm1_cf1", "pm25_cf1", "pm10_cf1", "pm25_atm"}
PrimaryBColumns ==
    {"pressure", "pm1_cf1", "pm25_cf1", "pm10_cf1", "pm25_atm"}
SecondaryColumns == {"pm1_atm", "pm10_atm"}

FileKind(fp) == ((fp - 1) % 4) + 1
FileSensor(fp) == ((fp - 1) \div 4) + 1

ColumnsOf(fp) ==
    CASE FileKind(fp) = 1 -> PrimaryAColumns
      [] FileKind(fp) = 2 -> SecondaryColumns
      [] FileKind(fp) = 3 -> PrimaryBColumns
      [] FileKind(fp) = 4 -> SecondaryColumns

Shifted(rec) ==
    [i \in DOMAIN rec |->
        IF rec[i].nan THEN NaNSample ELSE Sample(rec[i].v + 1000)]

ColumnTags ==
    [temp |-> 100, rh |-> 200, pressure |-> 300, uptime |-> 400,
     pm1_cf1 |-> 500, pm25_cf1 |-> 600, pm10_cf1 |-> 700,
     pm1_atm |-> 800, pm25_atm |-> 900, pm10_atm |-> 1000]

\* The value that fills column col of file fp.
ColumnTag(fp, col) == 10000 * fp + ColumnTags[col]

FileTable(d, fp) ==
    LET e == d[FileSensor(fp)]
    IN  [time |-> [i \in DOMAIN e.rec |-> e.start + i - 1],
         cols |-> [c \in ColumnsOf(fp) |->
            IF FileKind(fp) = 1 /\ c = e.which THEN e.rec
            ELSE IF FileKind(fp) = 1 /\ c \in {"pm25_atm", "pm25_cf1"}
            THEN Shifted(e.rec)
            ELSE [i \in DOMAIN e.rec |-> Sample(ColumnTag(fp, c))]]]

\* DataStream.load(), air.py 500-580: the table of the stream's file.
DataStreamLoad(d, stream) == FileTable(d, stream.filepath)

(***************************************************************************)
(* Sensor.load(), air.py 725-808.                                          *)
(***************************************************************************)
NoDataset ==
    [time |-> <<>>, temp |-> <<>>, rh |-> <<>>, pressure |-> <<>>,
     uptime |-> <<>>, pm1 |-> <<>>, pm25 |-> <<>>, pm10 |-> <<>>,
     pm1b |-> <<>>, pm25b |-> <<>>, pm10b |-> <<>>, aqi |-> <<>>]

Loaded(ds) == [exc |-> "none", ds |-> ds]
LoadRaised(e) == [exc |-> e, ds |-> NoDataset]
LoadNotCalled == [exc |-> "notcalled", ds |-> NoDataset]

\* dset.assign: the column of table tb on the time coordinate time; a stamp
\* the table does not have gets NaN.
OnTime(tb, col, time) ==
    IF tb.time = time
    THEN tb.cols[col]
    ELSE [i \in DOMAIN time |->
            IF \E k \in DOMAIN tb.time : tb.time[k] = time[i]
            THEN tb.cols[col][CHOOSE k \in DOMAIN tb.time : tb.time[k] = time[i]]
            ELSE NaNSample]

\* The channel B fields of an indoor sensor read from the channel A file.
FieldSourceInsideA(loc) ==
    [temp |-> <<0, "temp">>, rh |-> <<0, "rh">>,
     pressure |-> <<2, "pressure">>, uptime |-> <<0, "uptime">>] @@
    (IF loc = "inside"
     THEN [pm1 |-> <<0, "pm1_cf1">>, pm25 |-> <<0, "pm25_cf1">>,
           pm10 |-> <<0, "pm10_cf1">>, pm1b |-> <<0, "pm1_cf1">>,
           pm25b |-> <<0, "pm25_cf1">>, pm10b |-> <<0, "pm10_cf1">>]
     ELSE [pm1 |-> <<1, "pm1_atm">>, pm25 |-> <<0, "pm25_atm">>,
           pm10 |-> <<1, "pm10_atm">>, pm1b |-> <<3, "pm1_atm">>,
           pm25b |-> <<2, "pm25_atm">>, pm10b |-> <<3, "pm10_atm">>])

\* The CF=1 fields for every location.
FieldSourceCf1(loc) ==
    [temp |-> <<0, "temp">>, rh |-> <<0, "rh">>,
     pressure |-> <<2, "pressure">>, uptime |-> <<0, "uptime">>,
     pm1 |-> <<0, "pm1_cf1">>, pm25 |-> <<0, "pm25_cf1">>,
     pm10 |-> <<0, "pm10_cf1">>, pm1b |-> <<2, "pm1_cf1">>,
     pm25b |-> <<2, "pm25_cf1">>, pm10b |-> <<2, "pm10_cf1">>]

\* Lines 753-783: the field of which stream (0 .. 3 in dstreams) feeds each
\* variable of the dataset.
FieldSource(loc) ==
    [temp |-> <<0, "temp">>, rh |-> <<0, "rh">>,
     pressure |-> <<2, "pressure">>, uptime |-> <<0, "uptime">>] @@
    (IF loc = "inside"
     THEN [pm1 |-> <<0, "pm1_cf1">>, pm25 |-> <<0, "pm25_cf1">>,
           pm10 |-> <<0, "pm10_cf1">>, pm1b |-> <<2, "pm1_cf1">>,
           pm25b |-> <<2, "pm25_cf1">>, pm10b |-> <<2, "pm10_cf1">>]
     ELSE [pm1 |-> <<1, "pm1_atm">>, pm25 |-> <<0, "pm25_atm">>,
           pm10 |-> <<1, "pm10_atm">>, pm1b |-> <<3, "pm1_atm">>,
           pm25b |-> <<2, "pm25_atm">>, pm10b |-> <<3, "pm10_atm">>])

\* np.vectorize(aqi) on one sample: NaN fails every comparison of aqi and
\* comes out of the formula as NaN.
AqiOfSample(x) ==
    IF x.nan THEN NaNAqi ELSE AqiSample(aqi(x.v).val)

CountOf(seq, P(_)) == Cardinality({i \in DOMAIN seq : P(seq[i])})

IsZeroAqi(a) == ~a.nan /\ a.n = 0
IsNumeric(a) == ~a.nan

\* An invalidation at a tenth or more.
TooManyZerosInclusive(aqis) ==
    /\ CountOf(aqis, IsNumeric) > 0
    /\ 10 * CountOf(aqis, IsZeroAqi) >= CountOf(aqis, IsNumeric)

\* Lines 790-792: num_zero / num_numeric > 0.1; the quotient 0 / 0 of two
\* numpy integers is NaN, and NaN > 0.1 is False.
TooManyZeros(aqis) ==
    /\ CountOf(aqis, IsNumeric) > 0
    /\ 10 * CountOf(aqis, IsZeroAqi) > CountOf(aqis, IsNumeric)

\* Line 793.
AllNaN(aqis) == [i \in DOMAIN aqis |-> NaNAqi]

\* A load that turns a negative PM2.5 sample into a null AQI.
SensorLoadNegativeAsNull(d, obj) ==
    IF Unassigned \in {obj.str_a1, obj.str_a2, obj.str_b1, obj.str_b2}
    THEN LoadRaised("AttributeError")
    ELSE
    LET \* dstreams[0] .. dstreams[3] of the code are dstreams[1] .. [4] here
        dstreams == << DataStreamLoad(d, obj.datastreams[obj.str_a1]),
                       DataStreamLoad(d, obj.datastreams[obj.str_a2]),
                       DataStreamLoad(d, obj.datastreams[obj.str_b1]),
                       DataStreamLoad(d, obj.datastreams[obj.str_b2]) >>
        time == dstreams[1].time
        src == FieldSource(obj.loc)
        field(name) == OnTime(dstreams[src[name][1] + 1], src[name][2], time)
        pm25s == field("pm25")
        aqis == [i \in DOMAIN pm25s |->
                    IF ~pm25s[i].nan /\ pm25s[i].v < 0
                    THEN NaNAqi
                    ELSE AqiOfSample(pm25s[i])]
    IN  IF \E name \in DOMAIN src :
              src[name][2] \notin DOMAIN dstreams[src[name][1] + 1].cols
        THEN LoadRaised("AttributeError")
        ELSE IF Len(time) = 0
        THEN LoadRaised("ValueError")     \* np.vectorize on a size 0 input
        ELSE Loaded(
            [time |-> time, temp |-> field("temp"), rh |-> field("rh"),
             pressure |-> field("pressure"), uptime |-> field("uptime"),
             pm1 |-> field("pm1"), pm25 |-> pm25s, pm10 |-> field("pm10"),
             pm1b |-> field("pm1b"), pm25b |-> field("pm25b"),
             pm10b |-> field("pm10b"),
             aqi |-> IF TooManyZeros(aqis) THEN AllNaN(aqis) ELSE aqis])

SensorLoad(d, obj) ==
    IF Unassigned \in {obj.str_a1, obj.str_a2, obj.str_b1, obj.str_b2}
    THEN LoadRaised("AttributeError")
    ELSE
    LET \* dstreams[0] .. dstreams[3] of the code are dstreams[1] .. [4] here
        dstreams == << DataStreamLoad(d, obj.datastreams[obj.str_a1]),
                       DataStreamLoad(d, obj.datastreams[obj.str_a2]),
                       DataStreamLoad(d, obj.datastreams[obj.str_b1]),
                       DataStreamLoad(d, obj.datastreams[obj.str_b2]) >>
        time == dstreams[1].time
        src == FieldSource(obj.loc)
        field(name) == OnTime(dstreams[src[name][1] + 1], src[name][2], time)
        pm25s == field("pm25")
        aqis == [i \in DOMAIN pm25s |-> AqiOfSample(pm25s[i])]
    IN  IF \E name \in DOMAIN src :
              src[name][2] \notin DOMAIN dstreams[src[name][1] + 1].cols
        THEN LoadRaised("AttributeError")
        ELSE IF Len(time) = 0
        THEN LoadRaised("ValueError")     \* np.vectorize on a size 0 input
        ELSE IF \E i \in DOMAIN pm25s : ~pm25s[i].nan /\ pm25s[i].v < 0
        THEN LoadRaised("ValueError")     \* raised by aqi
        ELSE Loaded(
            [time |-> time, temp |-> field("temp"), rh |-> field("rh"),
             pressure |-> field("pressure"), uptime |-> field("uptime"),
             pm1 |-> field("pm1"), pm25 |-> pm25s, pm10 |-> field("pm10"),
             pm1b |-> field("pm1b"), pm25b |-> field("pm25b"),
             pm10b |-> field("pm10b"),
             aqi |-> IF TooManyZeros(aqis) THEN AllNaN(aqis) ELSE aqis])

(***************************************************************************)
(* The data directory.  SensorCatalogue lists the sensors whose files it   *)
(* can hold: the name as the file names spell it, the location marker of   *)
(* the channel A files, and the texts of latitude and longitude.  The      *)
(* channel B files of a sensor carry " B" after the name and the marker    *)
(* "(undefined)", as Purple Air exports them.  File 4k-3 .. 4k of sensor k *)
(* has the path Paths[4k-3] .. Paths[4k].                                  *)
(***************************************************************************)
SensorCatalogue ==
    << [name |-> <<"L", "o", "c">>,
        marker |-> <<"(", "o", "u", "t", "s", "i", "d", "e", ")">>,
        lat |-> <<"4", "7", ".", "5">>,
        lon |-> <<"-", "1", "2", "2", ".", "3">>],
       [name |-> <<"L", "o", "c">>,
        marker |-> <<"(", "i", "n", "s", "i", "d", "e", ")">>,
        lat |-> <<"4", "7", ".", "5">>,
        lon |-> <<"-", "1", "2", "2", ".", "3">>],
       [name |-> <<"L", "o", "c">>,
        marker |-> <<"(", "u", "n", "d", "e", "f", "i", "n", "e", "d", ")">>,
        lat |-> <<"4", "7", ".", "5">>,
        lon |-> <<"-", "1", "2", "2", ".", "3">>],
       [name |-> <<"K", "i", "r", "k">>,
        marker |-> <<"(", "o", "u", "t", "s", "i", "d", "e", ")">>,
        lat |-> <<"4", "7", ".", "5">>,
        lon |-> <<"-", "1", "2", "2", ".", "3">>],
       [name |-> <<"K", "i", "r", "k">>,
        marker |-> <<"(", "i", "n", "s", "i", "d", "e", ")">>,
        lat |-> <<"4", "7", ".", "5">>,
        lon |-> <<"-", "1", "2", "2", ".", "3">>],
       [name |-> <<"L", "o", "c">>,
        marker |-> <<"(", "o", "u", "t", "s", "i", "d", "e", ")">>,
        lat |-> <<"4", "8", ".", "2", "5">>,
        lon |-> <<"-", "1", "2", "2", ".", "3">>],
       [name |-> <<"L", "o", "c">>,
        marker |-> <<"(", "i", "n", "s", "i", "d", "e", ")">>,
        lat |-> <<"4", "7", ".", "5", "0">>,
        lon |-> <<"-", "1", "2", "1", ".", "9">>] >>

FileIds == 1..(4 * Len(SensorCatalogue))

PathOf(f) ==
    LET e == SensorCatalogue[FileSensor(f)]
        chanB == FileKind(f) \in {3, 4}
    IN  <<"d", "a", "t", "a", "/", "p", "u", "r", "p", "l", "e", "_", "a", "i", "r", "/">>
        \o e.name \o (IF chanB THEN <<" ", "B">> ELSE <<>>) \o <<" ">>
        \o (IF chanB THEN <<"(", "u", "n", "d", "e", "f", "i", "n", "e", "d", ")">>
            ELSE e.marker)
        \o <<" ", "(">> \o e.lat \o <<" ">> \o e.lon \o <<")", " ">>
        \o (IF FileKind(f) \in {1, 3}
            THEN <<"P", "r", "i", "m", "a", "r", "y">>
            ELSE <<"S", "e", "c", "o", "n", "d", "a", "r", "y">>)
        \o <<" ", "6", "0", "_", "m", "i", "n", "u", "t", "e", "_", "a", "v", "e", "r", "a", "g", "e", ".", "c", "s", "v">>

Paths == [f \in FileIds |-> PathOf(f)]

\* The file that a path names, 0 when the directory has no such file.
FileOfPath(text) ==
    IF \E f \in FileIds : Paths[f] = text
    THEN CHOOSE f \in FileIds : Paths[f] = text
    ELSE 0

\* The DataStream keeps the file f in place of the path that names it
\* (0: the directory has no such file).
OnFile(made, f) ==
    IF made.exc = "none" THEN [made EXCEPT !.obj.filepath = f] ELSE made

\* DataStream(path) for every file of the directory.
DataStreams == [f \in FileIds |-> OnFile(DataStreamInit(Paths[f]), f)]

\* DataStream(text): DataStreamInit, looked up for the paths of the
\* directory.
DataStreamOf(text) ==
    IF FileOfPath(text) # 0
    THEN DataStreams[FileOfPath(text)]
    ELSE OnFile(DataStreamInit(text), 0)

(***************************************************************************)
(* The row of the dataframe, as far as the tract functions read it: has it *)
(* the column data_stream_file_names, is the cell null, and the files      *)
(* whose paths matcher.station_matcher joined with "," into the cell.      *)
(***************************************************************************)
NoColumn == [column |-> FALSE, null |-> TRUE, files |-> <<>>]
NullCell == [column |-> TRUE, null |-> TRUE, files |-> <<>>]
FilesCell(fs) == [column |-> TRUE, null |-> FALSE, files |-> fs]

\* matcher.py 67-68: ",".join of the paths
CellText(fs) == StrJoin(<<",">>, [i \in DOMAIN fs |-> Paths[fs[i]]])

CommaFree == [f \in FileIds |-> ~StrIn(<<",">>, Paths[f])]

\* df_row["data_stream_file_names"].split(","): when no path of the cell
\* holds a comma the pieces are the paths themselves.
SplitCell(fs) ==
    IF fs # <<>> /\ \A i \in DOMAIN fs : CommaFree[fs[i]]
    THEN [i \in DOMAIN fs |-> Paths[fs[i]]]
    ELSE StrSplit(CellText(fs), <<",">>)

(***************************************************************************)
(* tract_files_to_sensors(tract_files), air.py 74-107.  sens_info is a     *)
(* Python set, so the order of the Sensors is not fixed; they are kept     *)
(* here by their (sensor_name, lat) key.  Every exception of DataStream    *)
(* and Sensor construction is a ValueError, so the order does not show in  *)
(* the outcome.                                                            *)
(***************************************************************************)
NoSensors == [k \in {} |-> NoSensor]
SensorsBuilt(ss) == [exc |-> "none", sensors |-> ss]
SensorsRaised(e) == [exc |-> e, sensors |-> NoSensors]

\* Lines 99-100: the DataStreams of one sensor.
sens_streams(streams, name, lat) ==
    LET Matches(st) == st.sensor_name = name /\ st.lat = lat
    IN  SelectSeq(streams, Matches)

\* Line 92.
sens_info(streams) ==
    {<<streams[i].sensor_name, streams[i].lat>> : i \in DOMAIN streams}

\* Line 105, on the Sensor outcomes of the groups.
SensorsOf(built) ==
    IF \E k \in DOMAIN built : built[k].exc # "none"
    THEN SensorsRaised("ValueError")
    ELSE SensorsBuilt([k \in DOMAIN built |-> built[k].obj])

\* Lines 91-105, on the DataStreams.
GroupStreams(streams) ==
    SensorsOf([k \in sens_info(streams) |->
                Sensor(sens_streams(streams, k[1], k[2]))])

\* Line 89, on the DataStream outcomes.
StreamsOf(made) ==
    IF \E i \in DOMAIN made : made[i].exc # "none"
    THEN SensorsRaised("ValueError")
    ELSE GroupStreams([i \in DOMAIN made |-> made[i].obj])

tract_files_to_sensors(tract_files) ==
    StreamsOf([i \in DOMAIN tract_files |-> DataStreamOf(tract_files[i])])

(***************************************************************************)
(* get_tract_mean_aqi(df_row, include_smoke), air.py 110-169.  Time is in  *)
(* hours since 2020-05-01T00:00:00, the first hour of the study period.    *)
(***************************************************************************)
TractReturned(v) == [exc |-> "none", val |-> v]
TractRaised(e) == [exc |-> e, val |-> NaNAqi]
TractNotCalled == [exc |-> "notcalled", val |-> NaNAqi]

\* Lines 151-153: np.arange from 2020-05-01T00 to 2020-11-02T00 by the hour.
StudyHours == 4440
times == 0..(StudyHours - 1)

AsRat(a) == Rat(a.n, a.d)
RatAdd(a, b) == Lowest(Rat(a.n * b.d + b.n * a.d, a.d * b.d))
RatScale(a, p, q) == Lowest(Rat(a.n * p, a.d * q))      \* a * p / q

RECURSIVE RatSum(_, _)
RatSum(f, S) ==
    IF S = {} THEN Rat(0, 1)
    ELSE LET x == CHOOSE x \in S : TRUE
         IN  RatAdd(AsRat(f[x]), RatSum(f, S \ {x}))

\* np.nanmean of the samples f[x], x in DOMAIN f: NaN when none is numeric.
NanMean(f) ==
    LET numeric == {x \in DOMAIN f : ~f[x].nan}
    IN  IF numeric = {}
        THEN NaNAqi
        ELSE AqiSample(RatScale(RatSum(f, numeric), 1, Cardinality(numeric)))

\* ds.interp(time=times).aqi at hour h: xarray hands the series to scipy's
\* interp1d(kind="linear", bounds_error=False), which calls numpy.interp and
\* fills NaN outside the record; a stamp of the record keeps its value.
InterpAt(ds, h) ==
    LET t == ds.time
        j == CHOOSE j \in 1..(Len(t) - 1) : t[j] < h /\ h < t[j + 1]
    IN  IF h < t[1] \/ h > t[Len(t)]
        THEN NaNAqi
        ELSE IF \E k \in DOMAIN t : t[k] = h
        THEN ds.aqi[CHOOSE k \in DOMAIN t : t[k] = h]
        ELSE IF ds.aqi[j].nan \/ ds.aqi[j + 1].nan
        THEN NaNAqi
        ELSE AqiSample(RatAdd(AsRat(ds.aqi[j]),
                RatScale(RatAdd(AsRat(ds.aqi[j + 1]),
                                RatScale(AsRat(ds.aqi[j]), 0 - 1, 1)),
                         h - t[j], t[j + 1] - t[j])))

\* One mean over the samples of all sensors and hours.
MeanOfAllSamples(dsets) ==
    LET spans == UNION {dsets[k].time[1]..dsets[k].time[Len(dsets[k].time)] :
                            k \in DOMAIN dsets}
        hours == {h \in spans : h \in times}
    IN  NanMean([kh \in (DOMAIN dsets) \X hours |->
                    InterpAt(dsets[kh[1]], kh[2])])

\* Lines 164-168 on the loaded datasets dsets (one per outdoor sensor).  An
\* hour outside every record is NaN in every row of the stack, NaN in
\* hourly_aqi and skipped by the last nanmean, so the hours of the records
\* are the only ones to look at.
MeanOfHourlyMeans(dsets) ==
    LET spans == UNION {dsets[k].time[1]..dsets[k].time[Len(dsets[k].time)] :
                            k \in DOMAIN dsets}
        hours == {h \in spans : h \in times}
        hourly_aqi == [h \in hours |->
                        NanMean([k \in DOMAIN dsets |-> InterpAt(dsets[k], h)])]
    IN  NanMean(hourly_aqi)

\* sensor.load(); pd.read_csv raises for a path that names no file.
LoadFrom(d, sensor) ==
    IF \E st \in Range(sensor.datastreams) :
            FileSensor(st.filepath) \notin DOMAIN d
    THEN LoadRaised("FileNotFoundError")
    ELSE SensorLoad(d, sensor)

\* Lines 150-169, on the outcomes of the loads of line 148.
MeanOfLoads(loads) ==
    IF \E k \in DOMAIN loads : loads[k].exc # "none"
    THEN TractRaised(loads[CHOOSE k \in DOMAIN loads :
                                loads[k].exc # "none"].exc)
    ELSE TractReturned(MeanOfHourlyMeans([k \in DOMAIN loads |-> loads[k].ds]))

\* Lines 144-169, on the sensors with loc = "outside".
MeanOfOutdoor(d, outdoor_sensors) ==
    IF DOMAIN outdoor_sensors = {}
    THEN TractReturned(NaNAqi)
    ELSE MeanOfLoads([k \in DOMAIN outdoor_sensors |->
                        LoadFrom(d, outdoor_sensors[k])])

\* Lines 141-169, on the outcome of tract_files_to_sensors.
MeanOfSensors(d, all_sensors) ==
    IF all_sensors.exc # "none"
    THEN TractRaised(all_sensors.exc)
    ELSE MeanOfOutdoor(d,
            [k \in {k \in DOMAIN all_sensors.sensors :
                        all_sensors.sensors[k].loc = "outside"} |->
                all_sensors.sensors[k]])

\* The lines that would blank the smoke period are comments (156-161), so
\* include_smoke (smoke here) is not read.
get_tract_mean_aqi(d, row, smoke) ==
    IF ~row.column
    THEN TractRaised("ValueError")
    ELSE IF row.null
    THEN TractReturned(NaNAqi)
    ELSE MeanOfSensors(d, tract_files_to_sensors(SplitCell(row.files)))

(***************************************************************************)
(* get_tract_exposure(df_row, aqi_threshold, include_smoke), air.py        *)
(* 172-239.  The argument aqi_threshold is kept with its Python type: an   *)
(* int or a float is the rational n / d, a str is the text of the number   *)
(* n.  The exposure is kept as the exact quotient, where the code has the  *)
(* nearest float.                                                          *)
(***************************************************************************)
IntThreshold(n) == [type |-> "int", n |-> n, d |-> 1]
FloatThreshold(n, d) == [type |-> "float", n |-> n, d |-> d]
StrThreshold(n) == [type |-> "str", n |-> n, d |-> 1]
NoThreshold == [type |-> "NoneType", n |-> 0, d |-> 1]

\* Line 194: isinstance(aqi_threshold, (int, float)).
IsIntOrFloat(threshold) == threshold.type \in {"int", "float"}

\* Lines 220-221: 2020-09-08T00:00:00 and 2020-09-19T23:00:00 in hours
\* since 2020-05-01T00:00:00.
smoke_start == 3120
smoke_end == 3407

\* A window that leaves its two end stamps in the data.
WhereOutsideSmokeOpen(ds) ==
    [name \in DOMAIN ds |->
        IF name = "time"
        THEN ds.time
        ELSE [i \in DOMAIN ds[name] |->
                IF ds.time[i] <= smoke_start \/ ds.time[i] >= smoke_end
                THEN ds[name][i]
                ELSE IF name = "aqi" THEN NaNAqi ELSE NaNSample]]

\* Lines 222-223: ds.where((ds.time < start) | (ds.time > end)) keeps the
\* time coordinate and blanks every variable at the other stamps.
WhereOutsideSmoke(ds) ==
    [name \in DOMAIN ds |->
        IF name = "time"
        THEN ds.time
        ELSE [i \in DOMAIN ds[name] |->
                IF ds.time[i] < smoke_start \/ ds.time[i] > smoke_end
                THEN ds[name][i]
                ELSE IF name = "aqi" THEN NaNAqi ELSE NaNSample]]

\* Line 227: ds.aqi.notnull().sum()
num_meas(ds) == Cardinality({i \in DOMAIN ds.aqi : ~ds.aqi[i].nan})

\* A comparison a > aqi_threshold in place of line 232.
num_exceed_strict(ds, threshold) ==
    Cardinality({i \in DOMAIN ds.aqi :
        /\ ~ds.aqi[i].nan
        /\ ds.aqi[i].n * threshold.d > threshold.n * ds.aqi[i].d})

\* A count of the samples that are not below the threshold, null samples
\* among them.
num_exceed_not_below(ds, threshold) ==
    Cardinality({i \in DOMAIN ds.aqi :
        \/ ds.aqi[i].nan
        \/ ds.aqi[i].n * threshold.d >= threshold.n * ds.aqi[i].d})

\* Line 232: (ds.aqi >= aqi_threshold).sum(); NaN >= x is False.
num_exceed(ds, threshold) ==
    Cardinality({i \in DOMAIN ds.aqi :
        /\ ~ds.aqi[i].nan
        /\ ds.aqi[i].n * threshold.d >= threshold.n * ds.aqi[i].d})

\* np.nansum of the integers f[x], x in S.
RECURSIVE NanSum(_, _)
NanSum(f, S) ==
    IF S = {} THEN 0
    ELSE LET x == CHOOSE x \in S : TRUE
         IN  f[x] + NanSum(f, S \ {x})

\* Line 237 with the sums of lines 228 and 234: exceed * 60 / (meas / 24);
\* numpy divides 0 by 0.0 to NaN.
ExposureRate(meas, exceed) ==
    IF meas = 0
    THEN NaNAqi
    ELSE AqiSample(Lowest(Rat(exceed * 60 * 24, meas)))

\* Lines 225-239, on the datasets of the outdoor sensors.
ExposureOfDsets(dsets, threshold) ==
    ExposureRate(
        NanSum([k \in DOMAIN dsets |-> num_meas(dsets[k])], DOMAIN dsets),
        NanSum([k \in DOMAIN dsets |-> num_exceed(dsets[k], threshold)],
               DOMAIN dsets))

\* An invalidation made on the AQI of the samples that the smoke window
\* leaves.
ExposureOfLoadsZerosLater(loads, threshold, smoke) ==
    IF \E k \in DOMAIN loads : loads[k].exc # "none"
    THEN TractRaised(loads[CHOOSE k \in DOMAIN loads :
                                loads[k].exc # "none"].exc)
    ELSE TractReturned(ExposureOfDsets(
            [k \in DOMAIN loads |->
                IF smoke
                THEN loads[k].ds
                ELSE LET ds == WhereOutsideSmoke(loads[k].ds)
                         aqis == [i \in DOMAIN ds.pm25 |->
                                    AqiOfSample(ds.pm25[i])]
                     IN  [ds EXCEPT !.aqi = IF TooManyZeros(aqis)
                                            THEN AllNaN(aqis) ELSE aqis]],
            threshold))

\* Lines 218-239, on the outcomes of the loads of line 216.
ExposureOfLoads(loads, threshold, smoke) ==
    IF \E k \in DOMAIN loads : loads[k].exc # "none"
    THEN TractRaised(loads[CHOOSE k \in DOMAIN loads :
                                loads[k].exc # "none"].exc)
    ELSE TractReturned(ExposureOfDsets(
            [k \in DOMAIN loads |->
                IF smoke THEN loads[k].ds ELSE WhereOutsideSmoke(loads[k].ds)],
            threshold))

\* Lines 212-239, on the sensors with loc = "outside".
ExposureOfOutdoor(d, outdoor_sensors, threshold, smoke) ==
    IF DOMAIN outdoor_sensors = {}
    THEN TractReturned(NaNAqi)
    ELSE ExposureOfLoads([k \in DOMAIN outdoor_sensors |->
                            LoadFrom(d, outdoor_sensors[k])],
                         threshold, smoke)

\* A filter that keeps every sensor that is not indoors.
ExposureOfNotInside(d, all_sensors, threshold, smoke) ==
    IF all_sensors.exc # "none"
    THEN TractRaised(all_sensors.exc)
    ELSE ExposureOfOutdoor(d,
            [k \in {k \in DOMAIN all_sensors.sensors :
                        all_sensors.sensors[k].loc # "inside"} |->
                all_sensors.sensors[k]],
            threshold, smoke)

\* Lines 209-239, on the outcome of tract_files_to_sensors.
ExposureOfSensors(d, all_sensors, threshold, smoke) ==
    IF all_sensors.exc # "none"
    THEN TractRaised(all_sensors.exc)
    ELSE ExposureOfOutdoor(d,
            [k \in {k \in DOMAIN all_sensors.sensors :
                        all_sensors.sensors[k].loc = "outside"} |->
                all_sensors.sensors[k]],
            threshold, smoke)

\* The check of the column made before the check of the threshold.
get_tract_exposure_column_first(d, row, threshold, smoke) ==
    IF ~row.column
    THEN TractRaised("ValueError")
    ELSE IF ~IsIntOrFloat(threshold)
    THEN TractRaised("TypeError")
    ELSE IF row.null
    THEN TractReturned(NaNAqi)
    ELSE ExposureOfSensors(d, tract_files_to_sensors(SplitCell(row.files)),
                           threshold, smoke)

get_tract_exposure(d, row, threshold, smoke) ==
    IF ~IsIntOrFloat(threshold)
    THEN TractRaised("TypeError")
    ELSE IF ~row.column
    THEN TractRaised("ValueError")
    ELSE IF row.null
    THEN TractReturned(NaNAqi)
    ELSE ExposureOfSensors(d, tract_files_to_sensors(SplitCell(row.files)),
                           threshold, smoke)

NoDisk == [k \in {} |-> 0]

LoadIdle ==
    /\ disk = NoDisk
    /\ load_ret = LoadNotCalled

TractIdle ==
    /\ df_row = NoColumn
    /\ aqi_threshold = NoThreshold
    /\ include_smoke = TRUE
    /\ tract_ret = TractNotCalled

(***************************************************************************)
(* The path handed to DataStream(filepath), in the pieces of the form the  *)
(* docstring gives (air.py 380-382):                                       *)
(*     STATION NAME channel (loc) (lat lon) DataType ... .csv              *)
(* behind a directory.  The station name and the channel label form the    *)
(* piece name; a piece may be empty, and the pieces that are not are set   *)
(* one blank apart.                                                        *)
(***************************************************************************)
FileName(dir, name, marker, coords, type) ==
    [dir |-> dir, name |-> name, marker |-> marker, coords |-> coords,
     type |-> type]

NoFileName == FileName(<<>>, <<>>, <<>>, <<>>, <<>>)

\* the pieces of a sequence of texts that are not empty
NonEmpty(pieces) ==
    LET Filled(t) == t # <<>>
    IN  SelectSeq(pieces, Filled)

\* the text of the path
PathText(f) ==
    f.dir \o StrJoin(<<" ">>, NonEmpty(<<f.name, f.marker, f.coords, f.type>>))
          \o <<".", "c", "s", "v">>

StreamNotCalled == [exc |-> "notcalled", obj |-> NoDataStream]

StreamIdle ==
    /\ file_name = NoFileName
    /\ stream_ret = StreamNotCalled

(***************************************************************************)
(* The specification of Sensor construction.  The list starts as the four  *)
(* DataStreams of the four files of one sensor, in any order; channel A    *)
(* and channel B files may carry different location markers.  The caller   *)
(* then makes up to MaxEdits changes (assigning an attribute, appending a  *)
(* stream a second time, dropping the last stream) and builds the Sensor.  *)
(***************************************************************************)
Permutations4 ==
    {p \in [1..4 -> 1..4] : \A i, j \in 1..4 : i # j => p[i] # p[j]}

FourStreams(name, la, lo, locA, locB) ==
    << DataStream(1, name, la, lo, locA, "A", 1),
       DataStream(2, name, la, lo, locA, "A", 2),
       DataStream(3, name, la, lo, locB, "B", 1),
       DataStream(4, name, la, lo, locB, "B", 2) >>

SensorIdle ==
    /\ data_streams = <<>>
    /\ edits = 0
    /\ sensor_ret = SensorNotCalled

InitSensor ==
    /\ pc = "start"
    /\ pm25 = 0 /\ aqi_ret = NotCalled /\ pm25_b = 0 /\ aqi_ret_b = NotCalled
    /\ \E p \in Permutations4, locA \in Locs :
         \E locB \in {locA, "undefined"} :
            data_streams =
              [i \in 1..4 |-> FourStreams("loc", 47, -122, locA, locB)[p[i]]]
    /\ edits = 0
    /\ sensor_ret = SensorNotCalled
    /\ LoadIdle
    /\ TractIdle
    /\ StreamIdle

SetAttr ==
    /\ pc = "start"
    /\ edits < MaxEdits
    /\ \E i \in DOMAIN data_streams, attr \in DataStreamAttrs :
         \E v \in AttrValues(attr) \ {data_streams[i][attr]} :
            data_streams' = [data_streams EXCEPT ![i][attr] = v]
    /\ edits' = edits + 1
    /\ UNCHANGED <<pc, aqiVars, sensor_ret, loadVars, tractVars, streamVars>>

AppendAgain ==
    /\ pc = "start"
    /\ edits < MaxEdits
    /\ \E i \in DOMAIN data_streams :
          data_streams' = Append(data_streams, data_streams[i])
    /\ edits' = edits + 1
    /\ UNCHANGED <<pc, aqiVars, sensor_ret, loadVars, tractVars, streamVars>>

DropLast ==
    /\ pc = "start"
    /\ edits < MaxEdits
    /\ data_streams # <<>>
    /\ data_streams' = SubSeq(data_streams, 1, Len(data_streams) - 1)
    /\ edits' = edits + 1
    /\ UNCHANGED <<pc, aqiVars, sensor_ret, loadVars, tractVars, streamVars>>

NewSensor ==
    /\ pc = "start"
    /\ sensor_ret' = Sensor(data_streams)
    /\ pc' = "built"
    /\ UNCHANGED <<aqiVars, data_streams, edits, loadVars, tractVars, streamVars>>

NextSensor == SetAttr \/ AppendAgain \/ DropLast \/ NewSensor

SpecSensor == InitSensor /\ [][NextSensor]_vars

(***************************************************************************)
(* The specification of Sensor.load: the Sensor of the four files of       *)
(* sensor 1 is built and loaded.  Its PM2.5 record is up to MaxPrefix      *)
(* samples drawn from Pm25Values followed by up to MaxTail samples of      *)
(* 12.00 ug/m3.                                                            *)
(***************************************************************************)
Pm25Values == {NaNSample, Sample(0), Sample(4), Sample(1200), Sample(-100)}

SeqsUpTo(S, n) == UNION {[1..k -> S] : k \in 0..n}

Pm25Records ==
    {pre \o [i \in 1..t |-> Sample(1200)] :
        pre \in SeqsUpTo(Pm25Values, MaxPrefix), t \in 0..MaxTail}

StreamOrders == {<<1, 2, 3, 4>>, <<4, 3, 2, 1>>}

InitLoad ==
    /\ pc = "start"
    /\ pm25 = 0 /\ aqi_ret = NotCalled /\ pm25_b = 0 /\ aqi_ret_b = NotCalled
    /\ \E p \in StreamOrders, locA \in Locs :
         \E locB \in {locA, "undefined"} :
            data_streams =
              [i \in 1..4 |-> FourStreams("loc", 47, -122, locA, locB)[p[i]]]
    /\ edits = 0
    /\ sensor_ret = SensorNotCalled
    /\ \E rec \in Pm25Records, which \in {"pm25_atm", "pm25_cf1"} :
          disk = [k \in {1} |-> [rec |-> rec, which |-> which, start |-> 1]]
    /\ load_ret = LoadNotCalled
    /\ TractIdle
    /\ StreamIdle

LoadSensor ==
    /\ pc = "built"
    /\ sensor_ret.exc = "none"
    /\ load_ret' = SensorLoad(disk, sensor_ret.obj)
    /\ pc' = "loaded"
    /\ UNCHANGED <<aqiVars, sensorVars, disk, tractVars, streamVars>>

NextLoad == NewSensor \/ LoadSensor

SpecLoad == InitLoad /\ [][NextLoad]_vars

(***************************************************************************)
(* The specification of the tract mean.  The data directory holds two      *)
(* sensors, one of SensorsA and one of SensorsB of the catalogue.  The     *)
(* first has a PM2.5 record of TractRecords from hour 10 on, the second    *)
(* reads 35.50 and 12.00 ug/m3 at hours 11 and 12.  The row has no column, *)
(* a null cell, or a cell that lists some of the files of the directory    *)
(* (a file the directory lacks is a file the matcher cannot list).  A      *)
(* record of one sample is left out: whether interp takes a series of one  *)
(* point depends on the scipy release.  One longer record, a zero and nine *)
(* readings of 12.00 ug/m3, has exactly a tenth of its AQI values at zero. *)
(***************************************************************************)
TractValues == {NaNSample, Sample(0), Sample(1200), Sample(-100)}

TractRecords ==
    {<<>>} \cup {r \in SeqsUpTo(TractValues, MaxTractLen) : Len(r) >= 2}
           \cup {[i \in 1..10 |-> IF i = 1 THEN Sample(0) ELSE Sample(1200)]}

SensorsA == {1, 2, 3}
SensorsB == {4, 5, 6, 7}

FilesOf(k) == {f \in FileIds : FileSensor(f) = k}

RECURSIVE Ascending(_)
Ascending(S) ==
    IF S = {} THEN <<>> ELSE <<Min(S)>> \o Ascending(S \ {Min(S)})

InitTract ==
    /\ pc = "start"
    /\ pm25 = 0 /\ aqi_ret = NotCalled /\ pm25_b = 0 /\ aqi_ret_b = NotCalled
    /\ SensorIdle
    /\ \E a \in SensorsA, b \in SensorsB, rec \in TractRecords :
        /\ disk = [k \in {a, b} |->
                    IF k = a
                    THEN [rec |-> rec, which |-> "pm25_atm", start |-> 10]
                    ELSE [rec |-> <<Sample(3550), Sample(1200)>>,
                          which |-> "pm25_atm", start |-> 11]]
        /\ df_row \in {NoColumn, NullCell} \cup
                {FilesCell(Ascending(T)) :
                    T \in (SUBSET (FilesOf(a) \cup FilesOf(b))) \ {{}}}
    /\ load_ret = LoadNotCalled
    /\ aqi_threshold = NoThreshold
    /\ include_smoke = TRUE
    /\ tract_ret = TractNotCalled
    /\ StreamIdle

GetTractMeanAqi ==
    /\ pc = "start"
    /\ \E smoke \in BOOLEAN :
        /\ include_smoke' = smoke
        /\ tract_ret' = get_tract_mean_aqi(disk, df_row, smoke)
    /\ pc' = "averaged"
    /\ UNCHANGED <<aqiVars, sensorVars, loadVars, df_row, aqi_threshold,
                    streamVars>>

NextTract == GetTractMeanAqi

SpecTract == InitTract /\ [][NextTract]_vars

(***************************************************************************)
(* The specification of the two tract functions together.  The directory   *)
(* holds two sensors as above; the record of the first starts at one of    *)
(* ExposureStarts: an hour before the study period, within it before the   *)
(* smoke period, or at one of the two ends of the smoke period.  The row   *)
(* has no column, a null cell, or lists the files of one sensor, of both,  *)
(* or of both but the first or the last file.  The caller asks for the     *)
(* mean AQI, or for the exposure to one of Thresholds.                     *)
(***************************************************************************)
ExposureStarts == {0 - 1, 10, smoke_start - 1, smoke_end}

Thresholds ==
    {IntThreshold(0 - 5), IntThreshold(0), IntThreshold(50),
     FloatThreshold(101, 2), IntThreshold(101), StrThreshold(100)}

ExposureRows(a, b) ==
    {NoColumn, NullCell} \cup
    {FilesCell(Ascending(T)) :
        T \in {FilesOf(a), FilesOf(b), FilesOf(a) \cup FilesOf(b)} \cup
              {(FilesOf(a) \cup FilesOf(b)) \ {f} :
                    f \in {Min(FilesOf(a)), Max(FilesOf(b))}}}

InitExposure ==
    /\ pc = "start"
    /\ pm25 = 0 /\ aqi_ret = NotCalled /\ pm25_b = 0 /\ aqi_ret_b = NotCalled
    /\ SensorIdle
    /\ \E a \in SensorsA, b \in SensorsB, rec \in TractRecords,
          start \in ExposureStarts :
        /\ disk = [k \in {a, b} |->
                    IF k = a
                    THEN [rec |-> rec, which |-> "pm25_atm", start |-> start]
                    ELSE [rec |-> <<Sample(3550), Sample(1200)>>,
                          which |-> "pm25_atm", start |-> 11]]
        /\ df_row \in ExposureRows(a, b)
    /\ load_ret = LoadNotCalled
    /\ aqi_threshold = NoThreshold
    /\ include_smoke = TRUE
    /\ tract_ret = TractNotCalled
    /\ StreamIdle

GetTractExposure ==
    /\ pc = "start"
    /\ \E threshold \in Thresholds, smoke \in BOOLEAN :
        /\ aqi_threshold' = threshold
        /\ include_smoke' = smoke
        /\ tract_ret' = get_tract_exposure(disk, df_row, threshold, smoke)
    /\ pc' = "exposed"
    /\ UNCHANGED <<aqiVars, sensorVars, loadVars, df_row, streamVars>>

NextExposure == GetTractMeanAqi \/ GetTractExposure

SpecExposure == InitExposure /\ [][NextExposure]_vars

(***************************************************************************)
(* The specification of DataStream construction: a path is put together    *)
(* from one piece of each of the sets below, and DataStream(filepath) is   *)
(* called on it.                                                           *)
(***************************************************************************)
Dirs ==
    {<<>>,
     <<"d", "a", "t", "a", "/", "p", "u", "r", "p", "l", "e", "_", "a", "i", "r", "/">>}

StationNames ==
    {<<"L", "o", "c">>,
     <<"L", "o", "c", " ", "B">>,
     <<"C", "L", "U", "B">>,
     <<"C", "L", "U", "B", " ", "B">>,
     <<"B", "o", "b">>,
     <<"P", "r", "i", "m", "a", "r", "y", " ", "R", "d">>}

Markers ==
    {<<>>,
     <<"(", "o", "u", "t", "s", "i", "d", "e", ")">>,
     <<"(", "O", "u", "t", "s", "i", "d", "e", ")">>,
     <<"(", "O", "U", "T", "S", "I", "D", "E", ")">>,
     <<"(", "i", "n", "s", "i", "d", "e", ")">>,
     <<"(", "I", "n", "s", "i", "d", "e", ")">>,
     <<"(", "u", "n", "d", "e", "f", "i", "n", "e", "d", ")">>,
     <<"(", "t", "k", ")">>,
     <<"(", "u", "n", "k", "n", "o", "w", "n", "_", "l", "o", "c", "a", "t", "i", "o", "n", ")">>}

CoordTokens ==
    {<<>>,
     <<"(", "4", "7", ".", "5", " ", "-", "1", "2", "2", ".", "3", ")">>,
     <<"(", "4", "7", ".", "0", " ", "-", "1", "2", "2", ".", "0", ")">>,
     <<"(", "4", "7", ".", "5", "0", " ", "-", "1", "2", "2", ".", "3", "0", ")">>,
     <<"(", "4", "7", ".", "5", " ", "1", "2", "2", ".", "3", ")">>,
     <<"(", "4", "7", ".", "5", " ", " ", "-", "1", "2", "2", ".", "3", ")">>,
     <<"(", "4", "7", "x", "5", " ", "-", "1", "2", "2", ".", "3", ")">>,
     <<"(", "4", "7", " ", "-", "1", "2", "2", ")">>,
     <<"(", "-", "3", "3", ".", "5", " ", "-", "7", "0", ".", "6", ")">>,
     <<"(", "4", "7", ".", "5", " ", "-", "-", "1", "2", "2", ".", "3", ")">>}

TypeTexts ==
    {<<>>,
     <<"P", "r", "i", "m", "a", "r", "y", " ", "6", "0", "_", "m", "i", "n", "u", "t", "e", "_", "a", "v", "e", "r", "a", "g", "e">>,
     <<"S", "e", "c", "o", "n", "d", "a", "r", "y", " ", "6", "0", "_", "m", "i", "n", "u", "t", "e", "_", "a", "v", "e", "r", "a", "g", "e">>,
     <<"P", "r", "i", "m", "a", "r", "y", " ", "S", "e", "c", "o", "n", "d", "a", "r", "y">>,
     <<"6", "0", "_", "m", "i", "n", "u", "t", "e", "_", "a", "v", "e", "r", "a", "g", "e">>}

InitDataStream ==
    /\ pc = "start"
    /\ pm25 = 0 /\ aqi_ret = NotCalled /\ pm25_b = 0 /\ aqi_ret_b = NotCalled
    /\ SensorIdle
    /\ LoadIdle
    /\ TractIdle
    /\ \E dir \in Dirs, name \in StationNames, marker \in Markers,
          coords \in CoordTokens, type \in TypeTexts :
            file_name = FileName(dir, name, marker, coords, type)
    /\ stream_ret = StreamNotCalled

NewDataStream ==
    /\ pc = "start"
    /\ stream_ret' = DataStreamInit(PathText(file_name))
    /\ pc' = "parsed"
    /\ UNCHANGED <<aqiVars, sensorVars, loadVars, tractVars, file_name>>

NextDataStream == NewDataStream

SpecDataStream == InitDataStream /\ [][NextDataStream]_vars

(***************************************************************************)
(* The specification of the AQI calculator: one call of aqi on an input    *)
(* drawn from -MaxNegPm .. MaxPm.                                          *)
(***************************************************************************)
InitAqi ==
    /\ pc = "start"
    /\ pm25 \in (0 - MaxNegPm)..MaxPm
    /\ aqi_ret = NotCalled
    /\ pm25_b = pm25
    /\ aqi_ret_b = NotCalled
    /\ SensorIdle
    /\ LoadIdle
    /\ TractIdle
    /\ StreamIdle

CallAqi ==
    /\ pc = "start"
    /\ aqi_ret' = aqi(pm25)
    /\ pc' = "called"
    /\ UNCHANGED <<pm25, pm25_b, aqi_ret_b, sensorVars, loadVars, tractVars, streamVars>>

NextAqi == CallAqi

SpecAqi == InitAqi /\ [][NextAqi]_vars

(***************************************************************************)
(* Two calls of aqi, on pm25 and then on pm25_b, with                      *)
(* pm25 <= pm25_b <= pm25 + MaxStep.                                       *)
(***************************************************************************)
InitAqiPair ==
    /\ pc = "start"
    /\ pm25 \in (0 - MaxNegPm)..MaxPm
    /\ aqi_ret = NotCalled
    /\ pm25_b \in pm25..(pm25 + MaxStep)
    /\ aqi_ret_b = NotCalled
    /\ SensorIdle
    /\ LoadIdle
    /\ TractIdle
    /\ StreamIdle

CallAqiB ==
    /\ pc = "called"
    /\ aqi_ret_b' = aqi(pm25_b)
    /\ pc' = "done"
    /\ UNCHANGED <<pm25, aqi_ret, pm25_b, sensorVars, loadVars, tractVars, streamVars>>

NextAqiPair == CallAqi \/ CallAqiB

SpecAqiPair == InitAqiPair /\ [][NextAqiPair]_vars

(***************************************************************************)
(* Properties of the AQI calculator.                                       *)
(***************************************************************************)

\* The breakpoint table of the EPA technical assistance document, in tenths
\* of ug/m3: <<pm_low, pm_hi, aqi_low, aqi_hi>> for Good .. Hazardous.
EpaTable ==
    << <<0, 120, 0, 50>>, <<121, 354, 51, 100>>, <<355, 554, 101, 150>>,
       <<555, 1504, 151, 200>>, <<1505, 2504, 201, 300>>,
       <<2505, 5004, 301, 500>> >>

\* The tenths nearest to h hundredths (two of them at a tie).
NearestTenths(h) ==
    {r \in (h \div 10)..((h \div 10) + 1) : 10 * r - 5 <= h /\ h <= 10 * r + 5}

InRow(i, r) == EpaTable[i][1] <= r /\ r <= EpaTable[i][2]

\* v = (aqi_hi - aqi_low) / (pm_hi - pm_low) * (r - pm_low) + aqi_low in row i
IsRowValue(v, i, r) ==
    LET w == EpaTable[i][2] - EpaTable[i][1]
    IN  Lowest(v) =
          Lowest(Rat((EpaTable[i][4] - EpaTable[i][3]) * (r - EpaTable[i][1])
                        + EpaTable[i][3] * w, w))

\* the rational v rounds to the integer k
RoundsTo(v, k) == (2 * k - 1) * v.d < 2 * v.n /\ 2 * v.n < (2 * k + 1) * v.d

AqiCalled == pc \in {"called", "done"}

\* C1: for pm25 >= 0 whose rounded value lies in the table, aqi returns the
\* EPA formula of the first (and only) row holding the value rounded to one
\* decimal place, and aqi(45) rounds to 124.
C1_FormulaInTable ==
    (AqiCalled /\ pm25 >= 0 /\ \E r \in NearestTenths(pm25) : r <= 5004) =>
        /\ aqi_ret.exc = "none"
        /\ \E r \in NearestTenths(pm25) :
              /\ Cardinality({i \in 1..6 : InRow(i, r)}) = 1
              /\ \E i \in 1..6 :
                    /\ InRow(i, r)
                    /\ \A j \in 1..(i - 1) : ~InRow(j, r)
                    /\ IsRowValue(aqi_ret.val, i, r)
        /\ (pm25 = 4500 => RoundsTo(aqi_ret.val, 124))

C1_Witness ==
    AqiCalled /\ pm25 = 4500 /\ aqi_ret = Returned(Rat(24754, 199))

\* C2: aqi raises ValueError for every pm25 < 0, also when pm25 would round
\* to 0.0, and returns no value.
C2_NegativeRaises ==
    (AqiCalled /\ pm25 < 0) => aqi_ret = Raised("ValueError")

C2_Witness ==
    AqiCalled /\ pm25 = -4 /\ NpRound1(pm25) = 0 /\ aqi_ret.exc = "ValueError"

\* C3: at each category boundary aqi returns the tabulated endpoint, and the
\* AQI steps by exactly 1 from one row's pm_hi to the next row's pm_low.
C3_Endpoints ==
    \A i \in 1..6 :
        /\ (AqiCalled /\ pm25 = 10 * EpaTable[i][1]) =>
              aqi_ret.exc = "none" /\ Lowest(aqi_ret.val) = Rat(EpaTable[i][3], 1)
        /\ (AqiCalled /\ pm25 = 10 * EpaTable[i][2]) =>
              aqi_ret.exc = "none" /\ Lowest(aqi_ret.val) = Rat(EpaTable[i][4], 1)
        /\ (pc = "done" /\ i < 6 /\ pm25 = 10 * EpaTable[i][2]
                /\ pm25_b = pm25 + 10) =>
              /\ aqi_ret.exc = "none" /\ aqi_ret_b.exc = "none"
              /\ Lowest(aqi_ret.val).d = 1 /\ Lowest(aqi_ret_b.val).d = 1
              /\ Lowest(aqi_ret_b.val).n - Lowest(aqi_ret.val).n = 1

C3_Witness ==
    /\ pc = "done" /\ pm25 = 1200 /\ pm25_b = 1210
    /\ aqi_ret = Returned(Rat(6000, 120))
    /\ aqi_ret_b = Returned(Rat(51 * 233, 233))

\* a <= b for two rationals with positive denominators, by whole parts and
\* then by remainders
AqiLeq(a, b) ==
    \/ a.n \div a.d < b.n \div b.d
    \/ /\ a.n \div a.d = b.n \div b.d
       /\ (a.n % a.d) * b.d <= (b.n % b.d) * a.d

\* C28: for 0 <= pm25 <= pm25_b both calls of aqi return, the results are
\* not negative, and the AQI of pm25 is not above the AQI of pm25_b.
C28_Monotone ==
    (pc = "done" /\ pm25 >= 0)
        => /\ aqi_ret.exc = "none"
           /\ aqi_ret_b.exc = "none"
           /\ aqi_ret.val.d > 0
           /\ aqi_ret_b.val.d > 0
           /\ aqi_ret.val.n >= 0
           /\ AqiLeq(aqi_ret.val, aqi_ret_b.val)

\* The pair 500.4 and 500.5 across the top of the table: 500 and the
\* extrapolation above it.
C28_Witness ==
    /\ pc = "done"
    /\ pm25 = 50040
    /\ pm25_b = 50050
    /\ Lowest(aqi_ret.val) = Rat(500, 1)
    /\ aqi_ret_b.exc = "none"
    /\ ~AqiLeq(aqi_ret_b.val, aqi_ret.val)

\* C4: above the top of the table aqi does not fail: it extrapolates with
\* the formula of the top (maroon) row and the result is greater than 500.
C4_AboveTable ==
    (AqiCalled /\ pm25 >= 0 /\ \A r \in NearestTenths(pm25) : r > 5004) =>
        /\ aqi_ret.exc = "none"
        /\ \E r \in NearestTenths(pm25) : IsRowValue(aqi_ret.val, 6, r)
        /\ aqi_ret.val.n > 500 * aqi_ret.val.d

C4_Witness ==
    AqiCalled /\ pm25 = 50500 /\ aqi_ret = Returned(Rat(199 * 2545 + 301 * 2499, 2499))

(***************************************************************************)
(* Properties of Sensor construction.                                      *)
(***************************************************************************)
SensorCalled == pc = "built"

FourGiven == Len(data_streams) = 4

SameNames == \A i, j \in DOMAIN data_streams :
                data_streams[i].sensor_name = data_streams[j].sensor_name
SameLats == \A i, j \in DOMAIN data_streams :
                data_streams[i].lat = data_streams[j].lat
SameLons == \A i, j \in DOMAIN data_streams :
                data_streams[i].lon = data_streams[j].lon

AllChannelsAB == \A i \in DOMAIN data_streams :
                    data_streams[i].channel \in {"A", "B"}
AllTypesKnown == \A i \in DOMAIN data_streams :
                    data_streams[i].data_type \in {1, 2}
SomePrimary == \E i \in DOMAIN data_streams : data_streams[i].data_type = 1
SomeLoc(l) == \E i \in DOMAIN data_streams : data_streams[i].loc = l

PairwiseDistinct ==
    \A i, j \in DOMAIN data_streams :
        i # j => \/ data_streams[i].channel # data_streams[j].channel
                 \/ data_streams[i].data_type # data_streams[j].data_type

\* C6: four streams that do not share one sensor_name, one lat and one lon
\* are rejected with ValueError, and each of the three mismatches is enough
\* on its own: with everything else in order the identity check rejects.
C6_IdentityMismatch ==
    (SensorCalled /\ FourGiven /\ ~(SameNames /\ SameLats /\ SameLons)) =>
        /\ sensor_ret.exc = "ValueError"
        /\ sensor_ret.obj = NoSensor
        /\ (AllChannelsAB /\ AllTypesKnown /\ PairwiseDistinct) =>
              sensor_ret.why = "matching sensor names and lat/lon"

C6_Witness ==
    /\ SensorCalled /\ FourGiven
    /\ SameNames /\ SameLats /\ ~SameLons
    /\ AllChannelsAB /\ AllTypesKnown /\ PairwiseDistinct
    /\ ~(SomeLoc("inside") /\ SomeLoc("outside"))
    /\ sensor_ret = SensorRaised("matching sensor names and lat/lon")

\* C7: four streams two of which have the same (channel, data_type) are
\* rejected with ValueError; four streams are accepted only if their pairs
\* are pairwise distinct.
C7_DuplicatePair ==
    (SensorCalled /\ FourGiven) =>
        /\ ~PairwiseDistinct => sensor_ret.exc = "ValueError"
        /\ sensor_ret.exc = "none" => PairwiseDistinct

C7_Witness ==
    /\ SensorCalled /\ FourGiven
    /\ AllChannelsAB /\ AllTypesKnown /\ SomePrimary /\ ~PairwiseDistinct
    /\ SameNames /\ SameLats /\ SameLons
    /\ \A i, j \in DOMAIN data_streams :
          i # j => data_streams[i].filepath # data_streams[j].filepath
    /\ sensor_ret = SensorRaised("unique combination")

\* C8: four streams are rejected with ValueError if one has data_type 0 or a
\* channel other than A/B, and if none is primary; four all-secondary
\* streams with valid channels are rejected by the missing-primary check.
C8_TypesAndPrimary ==
    (SensorCalled /\ FourGiven) =>
        /\ ~AllTypesKnown => sensor_ret.exc = "ValueError"
        /\ ~AllChannelsAB => sensor_ret.exc = "ValueError"
        /\ ~SomePrimary => sensor_ret.exc = "ValueError"
        /\ (AllChannelsAB /\ \A i \in 1..4 : data_streams[i].data_type = 2) =>
              sensor_ret = SensorRaised("at least one primary")

C8_Witness ==
    /\ SensorCalled /\ FourGiven /\ AllChannelsAB
    /\ \A i \in 1..4 : data_streams[i].data_type = 2
    /\ sensor_ret = SensorRaised("at least one primary")

\* C10: for four streams that pass every other check, construction fails
\* with ValueError when the locs hold both inside and outside; otherwise the
\* Sensor's loc is inside if a stream is inside, else outside if a stream is
\* outside, else undefined.
C10_Location ==
    (SensorCalled /\ FourGiven /\ AllChannelsAB /\ AllTypesKnown
        /\ PairwiseDistinct /\ SameNames /\ SameLats /\ SameLons) =>
        IF SomeLoc("inside") /\ SomeLoc("outside")
        THEN sensor_ret = SensorRaised("conflicting locations")
        ELSE /\ sensor_ret.exc = "none"
             /\ SomeLoc("inside") => sensor_ret.obj.loc = "inside"
             /\ (~SomeLoc("inside") /\ SomeLoc("outside")) =>
                    sensor_ret.obj.loc = "outside"
             /\ (~SomeLoc("inside") /\ ~SomeLoc("outside")) =>
                    sensor_ret.obj.loc = "undefined"

C10_Witness ==
    /\ SensorCalled /\ FourGiven
    /\ SomeLoc("undefined") /\ SomeLoc("outside")
    /\ sensor_ret.exc = "none"
    /\ sensor_ret.obj.loc = "outside"

\* the stream of data_streams that the slot refers to has this channel and
\* data type
SlotHolds(slot, chan, dt) ==
    /\ slot \in DOMAIN data_streams
    /\ data_streams[slot].channel = chan
    /\ data_streams[slot].data_type = dt

\* C26: after a Sensor is built, each of str_a1, str_a2, str_b1 and str_b2
\* is assigned a stream of the list with the channel and the data type of
\* the slot, and the four are different streams.
C26_SlotsAssigned ==
    (SensorCalled /\ sensor_ret.exc = "none")
        => /\ SlotHolds(sensor_ret.obj.str_a1, "A", 1)
           /\ SlotHolds(sensor_ret.obj.str_a2, "A", 2)
           /\ SlotHolds(sensor_ret.obj.str_b1, "B", 1)
           /\ SlotHolds(sensor_ret.obj.str_b2, "B", 2)
           /\ Cardinality({sensor_ret.obj.str_a1, sensor_ret.obj.str_a2,
                           sensor_ret.obj.str_b1, sensor_ret.obj.str_b2}) = 4

\* A Sensor built from a list whose streams had their channel or data type
\* changed and whose last stream is the channel A primary one.
C26_Witness ==
    /\ SensorCalled
    /\ sensor_ret.exc = "none"
    /\ edits = MaxEdits
    /\ sensor_ret.obj.str_a1 = 4
    /\ sensor_ret.obj.str_b2 = 1
    /\ data_streams[4].filepath # 1

(***************************************************************************)
(* Properties of Sensor.load.                                              *)
(***************************************************************************)
LoadReturned == pc = "loaded" /\ load_ret.exc = "none"

\* the AQI of sample i of the loaded PM2.5 series is exactly zero
ZeroAt(i) ==
    /\ ~load_ret.ds.pm25[i].nan
    /\ aqi(load_ret.ds.pm25[i].v).val.n = 0

NumZero == Cardinality({i \in DOMAIN load_ret.ds.pm25 : ZeroAt(i)})
NumNumeric ==
    Cardinality({i \in DOMAIN load_ret.ds.pm25 : ~load_ret.ds.pm25[i].nan})

\* sample i of the returned aqi is the AQI of sample i of pm25, unmodified
AqiKeptAt(i) ==
    IF load_ret.ds.pm25[i].nan
    THEN load_ret.ds.aqi[i].nan
    ELSE /\ ~load_ret.ds.aqi[i].nan
         /\ Rat(load_ret.ds.aqi[i].n, load_ret.ds.aqi[i].d)
                = aqi(load_ret.ds.pm25[i].v).val

\* C5: when the zero AQI values are more than a tenth of the non-null AQI
\* values, the returned aqi is null at every timestamp; when they are a
\* tenth or less, every aqi value, zeros included, is returned unmodified.
C5_Invalidation ==
    LoadReturned =>
        /\ DOMAIN load_ret.ds.aqi = DOMAIN load_ret.ds.pm25
        /\ IF 10 * NumZero > NumNumeric
           THEN \A i \in DOMAIN load_ret.ds.aqi : load_ret.ds.aqi[i].nan
           ELSE \A i \in DOMAIN load_ret.ds.aqi : AqiKeptAt(i)

C5_Witness ==
    /\ LoadReturned
    /\ NumZero = 1 /\ NumNumeric = 10
    /\ \E i \in DOMAIN load_ret.ds.aqi :
          ZeroAt(i) /\ load_ret.ds.aqi[i] = AqiSample(Rat(0, 120))

\* Column col of file fp of the sensor, as the disk holds it.  The files of
\* the sensor are 1 (channel A, primary), 2 (channel A, secondary),
\* 3 (channel B, primary) and 4 (channel B, secondary).
OnDisk(fp, col) == FileTable(disk, fp).cols[col]

\* C20: for a Sensor whose loc is not "inside", Sensor.load takes pm1 and
\* pm10 from the ATM fields of the channel A secondary file, pm1b and pm10b
\* from those of the channel B secondary file, pm25 from pm25_atm of the
\* channel A primary file and pm25b from pm25_atm of the channel B primary
\* file.
C20_AtmFields ==
    (LoadReturned /\ sensor_ret.obj.loc # "inside")
        => /\ load_ret.ds.pm1 = OnDisk(2, "pm1_atm")
           /\ load_ret.ds.pm10 = OnDisk(2, "pm10_atm")
           /\ load_ret.ds.pm1b = OnDisk(4, "pm1_atm")
           /\ load_ret.ds.pm10b = OnDisk(4, "pm10_atm")
           /\ load_ret.ds.pm25 = OnDisk(1, "pm25_atm")
           /\ load_ret.ds.pm25b = OnDisk(3, "pm25_atm")

\* A sensor marked undefined whose primary file reads 12.00 ug/m3 in
\* pm25_cf1 and so 22.00 ug/m3 in pm25_atm: pm25 is 22.00.
C20_Witness ==
    /\ LoadReturned
    /\ sensor_ret.obj.loc = "undefined"
    /\ disk[1].which = "pm25_cf1"
    /\ Len(disk[1].rec) >= 1
    /\ disk[1].rec[1] = Sample(1200)
    /\ load_ret.ds.pm25[1] = Sample(2200)
    /\ load_ret.ds.pm25b[1] # OnDisk(3, "pm25_cf1")[1]
    /\ load_ret.ds.pm1[1] # OnDisk(1, "pm1_cf1")[1]

\* the variable of the loaded dataset is a column of file fp
ReadFrom(variable, fp) ==
    \E col \in ColumnsOf(fp) : load_ret.ds[variable] = OnDisk(fp, col)

\* C21 as stated: for a Sensor whose loc is "inside", Sensor.load takes
\* pm1, pm25 and pm10 from the CF=1 fields of the channel A primary file
\* and pm1b, pm25b and pm10b from the channel B secondary file.
C21_InsideFromSecondary ==
    (LoadReturned /\ sensor_ret.obj.loc = "inside")
        => /\ load_ret.ds.pm1 = OnDisk(1, "pm1_cf1")
           /\ load_ret.ds.pm25 = OnDisk(1, "pm25_cf1")
           /\ load_ret.ds.pm10 = OnDisk(1, "pm10_cf1")
           /\ ReadFrom("pm1b", 4)
           /\ ReadFrom("pm25b", 4)
           /\ ReadFrom("pm10b", 4)

\* C21, amended: pm1b, pm25b and pm10b come from the CF=1 fields of the
\* channel B primary file.
C21_InsideCf1Fields ==
    (LoadReturned /\ sensor_ret.obj.loc = "inside")
        => /\ load_ret.ds.pm1 = OnDisk(1, "pm1_cf1")
           /\ load_ret.ds.pm25 = OnDisk(1, "pm25_cf1")
           /\ load_ret.ds.pm10 = OnDisk(1, "pm10_cf1")
           /\ load_ret.ds.pm1b = OnDisk(3, "pm1_cf1")
           /\ load_ret.ds.pm25b = OnDisk(3, "pm25_cf1")
           /\ load_ret.ds.pm10b = OnDisk(3, "pm10_cf1")

\* An indoor sensor whose primary file reads 12.00 ug/m3 in pm25_atm and
\* so 22.00 ug/m3 in pm25_cf1: pm25 is 22.00.
C21_Witness ==
    /\ LoadReturned
    /\ sensor_ret.obj.loc = "inside"
    /\ disk[1].which = "pm25_atm"
    /\ Len(disk[1].rec) >= 1
    /\ disk[1].rec[1] = Sample(1200)
    /\ load_ret.ds.pm25[1] = Sample(2200)
    /\ load_ret.ds.pm1b[1] = Sample(ColumnTag(3, "pm1_cf1"))
    /\ ~ReadFrom("pm1b", 4)

\* C24: when the PM2.5 series of the sensor has no numeric sample, the
\* empty series included, Sensor.load returns, and the aqi it returns is
\* the series as computed: null at every stamp of the series.
C24_NoNumericLoads ==
    (/\ pc = "loaded"
     /\ \A i \in DOMAIN disk[1].rec : disk[1].rec[i].nan)
        => /\ load_ret.exc = "none"
           /\ Len(load_ret.ds.aqi) = Len(disk[1].rec)
           /\ \A i \in DOMAIN load_ret.ds.aqi : load_ret.ds.aqi[i].nan

(***************************************************************************)
(* Properties of get_tract_mean_aqi.                                       *)
(***************************************************************************)
TractCalled == pc = "averaged"

ListsFiles == df_row.column /\ ~df_row.null

\* the files of the cell that share sensor_name and lat with file f
GroupOf(f) ==
    {i \in DOMAIN df_row.files :
        /\ DataStreams[df_row.files[i]].obj.sensor_name
                = DataStreams[f].obj.sensor_name
        /\ DataStreams[df_row.files[i]].obj.lat = DataStreams[f].obj.lat}

\* C9: when the file list of the row holds a (sensor_name, lat) group that
\* does not count exactly four files, get_tract_mean_aqi raises ValueError,
\* whether or not the group is an outdoor one.
C9_GroupNotFour ==
    (/\ TractCalled
     /\ ListsFiles
     /\ \E f \in Range(df_row.files) : Cardinality(GroupOf(f)) # 4)
        => tract_ret.exc = "ValueError"

\* A complete outdoor sensor next to the two channel B files of another
\* sensor, which carry no "outside" marker: ValueError.
C9_Witness ==
    /\ TractCalled
    /\ ListsFiles
    /\ tract_ret.exc = "ValueError"
    /\ \E f, g \in Range(df_row.files) :
        /\ Cardinality(GroupOf(f)) = 4
        /\ \E i \in GroupOf(f) :
                DataStreams[df_row.files[i]].obj.loc = "outside"
        /\ Cardinality(GroupOf(g)) = 2
        /\ \A i \in GroupOf(g) :
                /\ DataStreams[df_row.files[i]].obj.channel = "B"
                /\ DataStreams[df_row.files[i]].obj.loc # "outside"

(***************************************************************************)
(* Properties of get_tract_mean_aqi and get_tract_exposure together.       *)
(***************************************************************************)
MeanCalled == pc = "averaged"
ExposureCalled == pc = "exposed"

NumericThreshold == aqi_threshold.type \in {"int", "float"}

\* the sensors of the catalogue with files in the cell
ListedSensors == {FileSensor(f) : f \in Range(df_row.files)}

\* every group of the cell is the four files of one sensor of the catalogue
WholeSensors ==
    \A f \in Range(df_row.files) :
        {df_row.files[i] : i \in GroupOf(f)} = FilesOf(FileSensor(f))

\* the sensors whose channel A files carry the marker "(outside)"
OutdoorInCatalogue ==
    {k \in DOMAIN SensorCatalogue :
        SensorCatalogue[k].marker
            = <<"(", "o", "u", "t", "s", "i", "d", "e", ")">>}

ListedOutdoor == ListedSensors \cap OutdoorInCatalogue

\* C11: get_tract_mean_aqi and get_tract_exposure return NaN when the tract
\* has no outdoor sensor: when the cell of the row is null, and when the
\* cell lists whole sensors that are all marked inside or undefined.
C11_NoOutdoorIsNaN ==
    (/\ MeanCalled \/ (ExposureCalled /\ NumericThreshold)
     /\ df_row.column
     /\ df_row.null \/ (WholeSensors /\ ListedOutdoor = {}))
        => tract_ret = TractReturned(NaNAqi)

\* The exposure of a tract whose only sensor is marked undefined and has a
\* numeric sample at or above the threshold: NaN.
C11_Witness ==
    /\ ExposureCalled
    /\ NumericThreshold
    /\ ListsFiles
    /\ WholeSensors
    /\ ListedSensors = {3}
    /\ \E i \in DOMAIN disk[3].rec :
          ~disk[3].rec[i].nan /\ disk[3].rec[i].v = 1200
    /\ \A i \in DOMAIN disk[3].rec :
          disk[3].rec[i].nan \/ disk[3].rec[i].v = 1200
    /\ aqi_threshold = IntThreshold(50)
    /\ tract_ret = TractReturned(NaNAqi)

\* C12: get_tract_exposure raises ValueError for every int or float
\* threshold that is zero or negative, whatever the row.
C12_NonPositiveRaises ==
    (/\ ExposureCalled
     /\ NumericThreshold
     /\ aqi_threshold.n <= 0)
        => tract_ret.exc = "ValueError"

\* C13: get_tract_exposure raises TypeError when aqi_threshold is neither
\* an int nor a float, whatever the row: without the column, with a null
\* cell, with or without outdoor sensors.
C13_TypeErrorFirst ==
    (ExposureCalled /\ ~NumericThreshold)
        => tract_ret = TractRaised("TypeError")

\* The threshold "100" and a row without the column: TypeError.
C13_Witness ==
    /\ ExposureCalled
    /\ aqi_threshold = StrThreshold(100)
    /\ ~df_row.column
    /\ tract_ret.exc = "TypeError"

\* The AQI of sample i of the record of sensor k.
RecordAqi(k, i) == AqiOfSample(disk[k].rec[i])

\* more than a tenth of the numeric AQI values of sensor k are zero
ZerosInvalidate(k) ==
    LET numeric == {i \in DOMAIN disk[k].rec : ~RecordAqi(k, i).nan}
        zero == {i \in numeric : RecordAqi(k, i).n = 0}
    IN  10 * Cardinality(zero) > Cardinality(numeric)

InSmokePeriod(k, i) ==
    /\ disk[k].start + i - 1 >= smoke_start
    /\ disk[k].start + i - 1 <= smoke_end

\* the samples (sensor, index) of the outdoor sensors that count as
\* measurements of the exposure
Pooled ==
    {ki \in UNION {{<<k, i>> : i \in DOMAIN disk[k].rec} :
                        k \in ListedOutdoor} :
        /\ ~RecordAqi(ki[1], ki[2]).nan
        /\ ~ZerosInvalidate(ki[1])
        /\ include_smoke \/ ~InSmokePeriod(ki[1], ki[2])}

Exceeding ==
    {ki \in Pooled :
        RecordAqi(ki[1], ki[2]).n * aqi_threshold.d
            >= aqi_threshold.n * RecordAqi(ki[1], ki[2]).d}

StampOf(k, i) == disk[k].start + i - 1

\* the samples of the outdoor sensors with a non-null AQI after the load,
\* whatever their stamps
Measured ==
    {ki \in UNION {{<<k, i>> : i \in DOMAIN disk[k].rec} :
                        k \in ListedOutdoor} :
        ~RecordAqi(ki[1], ki[2]).nan /\ ~ZerosInvalidate(ki[1])}

\* those with 2020-09-08T00:00 <= stamp <= 2020-09-19T23:00
MeasuredInSmoke ==
    {ki \in Measured :
        /\ smoke_start <= StampOf(ki[1], ki[2])
        /\ StampOf(ki[1], ki[2]) <= smoke_end}

AtThreshold(S) ==
    {ki \in S :
        RecordAqi(ki[1], ki[2]).n * aqi_threshold.d
            >= aqi_threshold.n * RecordAqi(ki[1], ki[2]).d}

\* the exposure returned is that of the samples S
ExposureIsOf(S) ==
    IF S = {}
    THEN tract_ret.val.nan
    ELSE /\ ~tract_ret.val.nan
         /\ tract_ret.val.n * Cardinality(S)
                = 60 * 24 * Cardinality(AtThreshold(S)) * tract_ret.val.d

\* C22: with include_smoke = False, get_tract_exposure leaves the samples
\* stamped from 2020-09-08T00:00 to 2020-09-19T23:00, ends included, out of
\* both counts and counts every other sample of the files, on or off the
\* hourly grid of the study period; with include_smoke = True it counts
\* them all.
C22_SmokeWindow ==
    (/\ ExposureCalled
     /\ NumericThreshold
     /\ ListsFiles
     /\ WholeSensors
     /\ ListedOutdoor # {}
     /\ tract_ret.exc = "none")
        => IF include_smoke
           THEN ExposureIsOf(Measured)
           ELSE ExposureIsOf(Measured \ MeasuredInSmoke)

\* include_smoke = False and one outdoor sensor with an AQI of 50 at
\* 2020-09-19T23:00, left out, and at 2020-09-20T00:00, counted: with the
\* threshold 50 the exposure is 1440 minutes a day.
C22_Witness ==
    /\ ExposureCalled
    /\ ~include_smoke
    /\ aqi_threshold = IntThreshold(50)
    /\ ListsFiles
    /\ WholeSensors
    /\ Cardinality(ListedOutdoor) = 1
    /\ Cardinality(Measured) = 2
    /\ \E ki \in MeasuredInSmoke : StampOf(ki[1], ki[2]) = smoke_end
    /\ \E ki \in Measured \ MeasuredInSmoke :
            StampOf(ki[1], ki[2]) = smoke_end + 1
    /\ tract_ret = TractReturned(AqiSample(Rat(1440, 1)))

\* The hours of the grid of the study period at which an outdoor sensor
\* has a non-null AQI, and the mean of the AQI values of the sensors at
\* such an hour.
SamplesAt(h) == {ki \in Measured : StampOf(ki[1], ki[2]) = h}

CoveredHours ==
    {h \in {StampOf(ki[1], ki[2]) : ki \in Measured} : h \in times}

MeasuredAqi == [ki \in Measured |-> RecordAqi(ki[1], ki[2])]

HourlyMean(h) ==
    AqiSample(RatScale(RatSum(MeasuredAqi, SamplesAt(h)),
                       1, Cardinality(SamplesAt(h))))

HourlyMeans == [h \in CoveredHours |-> HourlyMean(h)]

MeanOfHours ==
    RatScale(RatSum(HourlyMeans, CoveredHours), 1, Cardinality(CoveredHours))

\* a <= b for two rationals in lowest terms
RatLeq(a, b) == a.n * b.d <= b.n * a.d

\* C23: the mean that get_tract_mean_aqi returns is the mean, over the
\* hours of the grid with a non-null value, of the means over the outdoor
\* sensors with a non-null AQI at that hour; it lies between the least and
\* the greatest hourly mean, and it is NaN when no sensor has a non-null AQI
\* at any hour of the grid.
C23_MeanOfMeans ==
    (/\ MeanCalled
     /\ ListsFiles
     /\ WholeSensors
     /\ ListedOutdoor # {}
     /\ tract_ret.exc = "none")
        => IF CoveredHours = {}
           THEN tract_ret.val.nan
           ELSE /\ ~tract_ret.val.nan
                /\ Lowest(AsRat(tract_ret.val)) = MeanOfHours
                /\ \E h \in CoveredHours :
                     RatLeq(Lowest(AsRat(HourlyMean(h))),
                            Lowest(AsRat(tract_ret.val)))
                /\ \E h \in CoveredHours :
                     RatLeq(Lowest(AsRat(tract_ret.val)),
                            Lowest(AsRat(HourlyMean(h))))

\* Two outdoor sensors, AQI 50 and 50 at hours 10 and 11, AQI 101 and 50
\* at hours 11 and 12: the hourly means 50, 75.5 and 50 have the mean
\* 58.5, where the mean of the four samples is 62.75.
C23_Witness ==
    /\ MeanCalled
    /\ ListsFiles
    /\ WholeSensors
    /\ Cardinality(ListedOutdoor) = 2
    /\ CoveredHours = {10, 11, 12}
    /\ Cardinality(SamplesAt(10)) = 1
    /\ Cardinality(SamplesAt(11)) = 2
    /\ Cardinality(SamplesAt(12)) = 1
    /\ tract_ret = TractReturned(AqiSample(Rat(117, 2)))

\* C15: with include_smoke = False, get_tract_mean_aqi leaves the AQI
\* values of the smoke period out of the mean; so a tract whose outdoor
\* sensors have numeric samples in the smoke period only has the mean of a
\* tract without data, NaN.
C15_SmokeExcluded ==
    (/\ MeanCalled
     /\ ~include_smoke
     /\ ListsFiles
     /\ WholeSensors
     /\ tract_ret.exc = "none"
     /\ \A k \in ListedOutdoor : \A i \in DOMAIN disk[k].rec :
            disk[k].rec[i].nan \/ InSmokePeriod(k, i))
        => tract_ret.val.nan

(***************************************************************************)
(* Properties of DataStream construction.  The tables below say, for the   *)
(* pieces a path is made of, what a reader of the file name sees in them.  *)
(***************************************************************************)
StreamCalled == pc = "parsed"

StreamBuilt == StreamCalled /\ stream_ret.exc = "none"

\* The tokens that are a parenthesized pair of two decimal numbers set
\* apart by whitespace, the second with or without a minus sign, and the
\* numbers they spell.
DecimalPairs ==
    { [text |-> <<"(", "4", "7", ".", "5", " ", "-", "1", "2", "2", ".", "3", ")">>,
       lat |-> Rat(95, 2), lon |-> Rat(0 - 1223, 10)],
      [text |-> <<"(", "4", "7", ".", "0", " ", "-", "1", "2", "2", ".", "0", ")">>,
       lat |-> Rat(47, 1), lon |-> Rat(0 - 122, 1)],
      [text |-> <<"(", "4", "7", ".", "5", "0", " ", "-", "1", "2", "2", ".", "3", "0", ")">>,
       lat |-> Rat(95, 2), lon |-> Rat(0 - 1223, 10)],
      [text |-> <<"(", "4", "7", ".", "5", " ", "1", "2", "2", ".", "3", ")">>,
       lat |-> Rat(95, 2), lon |-> Rat(1223, 10)],
      [text |-> <<"(", "4", "7", ".", "5", " ", " ", "-", "1", "2", "2", ".", "3", ")">>,
       lat |-> Rat(95, 2), lon |-> Rat(0 - 1223, 10)] }

\* The tokens that are no such pair: none at all, a letter inside a
\* number, two minus signs.
NoPairs ==
    {<<>>,
     <<"(", "4", "7", "x", "5", " ", "-", "1", "2", "2", ".", "3", ")">>,
     <<"(", "4", "7", ".", "5", " ", "-", "-", "1", "2", "2", ".", "3", ")">>}

\* The tokens with a minus sign before the second number and one blank
\* between the numbers.
WesternPairs ==
    {q \in DecimalPairs :
        q.lon.n < 0 /\ ~StrIn(<<" ", " ">>, q.text)}

\* The location markers in the spellings of the paths, and their words.
LocMarkers ==
    { [text |-> <<"(", "o", "u", "t", "s", "i", "d", "e", ")">>, word |-> "outside"],
      [text |-> <<"(", "O", "u", "t", "s", "i", "d", "e", ")">>, word |-> "outside"],
      [text |-> <<"(", "O", "U", "T", "S", "I", "D", "E", ")">>, word |-> "outside"],
      [text |-> <<"(", "i", "n", "s", "i", "d", "e", ")">>, word |-> "inside"],
      [text |-> <<"(", "I", "n", "s", "i", "d", "e", ")">>, word |-> "inside"],
      [text |-> <<"(", "u", "n", "d", "e", "f", "i", "n", "e", "d", ")">>, word |-> "undefined"] }

HasLocMarker == \E m \in LocMarkers : m.text = file_name.marker

\* the name piece ends with the letter B
EndsWithB == file_name.name # <<>> /\ LastOf(file_name.name) = "B"

\* the name piece ends with the word B: a blank, then B
EndsWithTokenB ==
    /\ Len(file_name.name) >= 2
    /\ SubSeq(file_name.name, Len(file_name.name) - 1, Len(file_name.name))
            = <<" ", "B">>

\* C16: DataStream(filepath) takes lat and lon from a file name with a
\* parenthesized pair of two decimal numbers set apart by whitespace,
\* whether or not the second number has a minus sign, and raises
\* ValueError for a file name without such a pair.
C16_Coordinates ==
    StreamCalled =>
        /\ \A q \in DecimalPairs :
              file_name.coords = q.text
                => /\ stream_ret.exc = "none"
                   /\ stream_ret.obj.lat = q.lat
                   /\ stream_ret.obj.lon = q.lon
        /\ file_name.coords \in NoPairs => stream_ret.exc = "ValueError"

C18_MarkerAnyCase ==
    \A m \in LocMarkers :
        (/\ StreamCalled
         /\ file_name.marker = m.text
         /\ \E q \in WesternPairs : file_name.coords = q.text)
            => /\ stream_ret.exc = "none"
               /\ stream_ret.obj.loc = m.word
               /\ ~StrIn(StrLower(m.text), stream_ret.obj.sensor_name)
               /\ ~EndsWithB
                    => stream_ret.obj.sensor_name = StrLower(file_name.name)

\* C19: the channel is "B", and the label is taken off the name, when the
\* sensor name ends with the word B; a name whose last word ends with the
\* letter B, as CLUB, has channel "A" and is kept whole.  Stated for the
\* file names whose marker is absent or in lower case.
C19_ChannelToken ==
    (/\ StreamBuilt
     /\ file_name.marker = StrLower(file_name.marker))
        => IF EndsWithTokenB
           THEN /\ stream_ret.obj.channel = "B"
                /\ stream_ret.obj.sensor_name =
                      StrLower(StrStrip(SubSeq(file_name.name, 1,
                                               Len(file_name.name) - 1)))
           ELSE /\ stream_ret.obj.channel = "A"
                /\ stream_ret.obj.sensor_name = StrLower(file_name.name)

\* The texts after the coordinates, and the data type a reader sees in
\* them: 1 with the word Primary, else 2 with the word Secondary, else 0.
TypeKinds ==
    { [text |-> <<>>, kind |-> 0],
      [text |-> <<"P", "r", "i", "m", "a", "r", "y", " ", "6", "0", "_", "m", "i", "n", "u", "t", "e", "_", "a", "v", "e", "r", "a", "g", "e">>,
       kind |-> 1],
      [text |-> <<"S", "e", "c", "o", "n", "d", "a", "r", "y", " ", "6", "0", "_", "m", "i", "n", "u", "t", "e", "_", "a", "v", "e", "r", "a", "g", "e">>,
       kind |-> 2],
      [text |-> <<"P", "r", "i", "m", "a", "r", "y", " ", "S", "e", "c", "o", "n", "d", "a", "r", "y">>,
       kind |-> 1],
      [text |-> <<"6", "0", "_", "m", "i", "n", "u", "t", "e", "_", "a", "v", "e", "r", "a", "g", "e">>,
       kind |-> 0] }

\* C25: data_type is 1 when the text after the coordinates has the word
\* Primary, else 2 when it has the word Secondary, else 0, whatever the
\* text before the coordinates holds.
C25_DataType ==
    \A t \in TypeKinds :
        (StreamBuilt /\ file_name.type = t.text)
            => stream_ret.obj.data_type = t.kind

\* The station "Primary Rd" and a Secondary file: data_type 2.
C25_Witness ==
    /\ StreamBuilt
    /\ file_name.name = <<"P", "r", "i", "m", "a", "r", "y", " ", "R", "d">>
    /\ file_name.type = <<"S", "e", "c", "o", "n", "d", "a", "r", "y", " ", "6", "0", "_", "m", "i", "n", "u", "t", "e", "_", "a", "v", "e", "r", "a", "g", "e">>
    /\ stream_ret.obj.data_type = 2


\* C27: an exposure that get_tract_exposure returns and that is not NaN is
\* at least 0 and at most 1440 minutes per day, whatever the numeric
\* threshold.
C27_ExposureRange ==
    (ExposureCalled /\ tract_ret.exc = "none" /\ ~tract_ret.val.nan)
        => /\ tract_ret.val.d > 0
           /\ tract_ret.val.n >= 0
           /\ tract_ret.val.n <= 1440 * tract_ret.val.d

\* A threshold below every AQI and outdoor sensors with a null sample next
\* to the measured ones: every measurement exceeds, 1440 minutes per day.
C27_Witness ==
    /\ ExposureCalled
    /\ aqi_threshold = IntThreshold(0 - 5)
    /\ tract_ret.exc = "none"
    /\ ~tract_ret.val.nan
    /\ tract_ret.val.n = 1440 * tract_ret.val.d
    /\ ListsFiles
    /\ WholeSensors
    /\ Pooled # {}
    /\ \E k \in ListedOutdoor : \E i \in DOMAIN disk[k].rec :
            /\ RecordAqi(k, i).nan
            /\ ~ZerosInvalidate(k)

\* more than a tenth of the numeric AQI values that sensor k has outside
\* the smoke period are zero
ZerosInvalidateOutsideSmoke(k) ==
    LET numeric == {i \in DOMAIN disk[k].rec :
                        ~RecordAqi(k, i).nan /\ ~InSmokePeriod(k, i)}
        zero == {i \in numeric : RecordAqi(k, i).n = 0}
    IN  10 * Cardinality(zero) > Cardinality(numeric)

\* sensor k has a non-null AQI at a stamp that the call keeps
HasMeasurement(k) ==
    \E i \in DOMAIN disk[k].rec :
        /\ ~RecordAqi(k, i).nan
        /\ include_smoke \/ ~InSmokePeriod(k, i)

\* C29: with include_smoke False as with True, the outdoor sensors whose
\* samples get_tract_exposure leaves out are those whose zeros are more
\* than a tenth of the numeric AQI values of the whole record: the exposure
\* is NaN exactly when each outdoor sensor is such a sensor or has no
\* non-null AQI at a stamp that is kept.
C29_ZerosOfWholeRecord ==
    (/\ ExposureCalled
     /\ NumericThreshold
     /\ ListsFiles
     /\ WholeSensors
     /\ ListedOutdoor # {}
     /\ tract_ret.exc = "none")
        => (tract_ret.val.nan
                <=> \A k \in ListedOutdoor :
                        ZerosInvalidate(k) \/ ~HasMeasurement(k))

\* A call without the smoke period on one outdoor sensor whose only reading
\* before the smoke period is a zero, and whose nine readings in it are
\* not: the sensor is kept and its zero is the one measurement.
C29_Witness ==
    /\ ExposureCalled
    /\ aqi_threshold = IntThreshold(0)
    /\ ~include_smoke
    /\ ListsFiles
    /\ WholeSensors
    /\ Cardinality(ListedOutdoor) = 1
    /\ \E k \in ListedOutdoor :
            /\ ~ZerosInvalidate(k)
            /\ ZerosInvalidateOutsideSmoke(k)
    /\ tract_ret.exc = "none"
    /\ ~tract_ret.val.nan
    /\ tract_ret.val.n = 1440 * tract_ret.val.d

\* the record of sensor k has a negative PM2.5 sample
HasNegativeSample(k) ==
    \E i \in DOMAIN disk[k].rec :
        ~disk[k].rec[i].nan /\ disk[k].rec[i].v < 0

\* the Sensor objects of the cell of the row
SensorsOfRow == tract_files_to_sensors(SplitCell(df_row.files))

\* C30: when the PM2.5 record of an outdoor sensor of the tract has a
\* negative sample, the load of that sensor raises ValueError and returns no
\* dataset, and get_tract_mean_aqi and get_tract_exposure raise ValueError.
C30_NegativePropagates ==
    (/\ MeanCalled \/ (ExposureCalled /\ NumericThreshold)
     /\ ListsFiles
     /\ WholeSensors
     /\ \E k \in ListedOutdoor : HasNegativeSample(k))
        => /\ tract_ret.exc = "ValueError"
           /\ SensorsOfRow.exc = "none"
           /\ \A n \in DOMAIN SensorsOfRow.sensors :
                LET sensor == SensorsOfRow.sensors[n]
                IN  (/\ sensor.loc = "outside"
                     /\ HasNegativeSample(
                            FileSensor(sensor.datastreams[1].filepath)))
                        => LoadFrom(disk, sensor) = LoadRaised("ValueError")

\* A tract of two outdoor sensors, the record of one being 12.00 and then
\* -1.00 ug/m3, in a call of get_tract_exposure with the threshold 50.
C30_Witness ==
    /\ ExposureCalled
    /\ aqi_threshold = IntThreshold(50)
    /\ ListsFiles
    /\ WholeSensors
    /\ Cardinality(ListedOutdoor) = 2
    /\ \E k \in ListedOutdoor :
            disk[k].rec = <<Sample(1200), Sample(0 - 100)>>
    /\ tract_ret.exc = "ValueError"

====
